---- MODULE Spec2Model ----
(***************************************************************************)
(* A model of the parameter-optimization core of the conditional modelling *)
(* toolkit: the mixture model STM (src/code/cmt/src/stm.cpp), the          *)
(* parameter-count of the binned model MCBM (include/mcbm.h) and the       *)
(* plain-linear sub-model GLM (include/glm.h) that STM::train delegates to.*)
(*                                                                         *)
(* Numbers.  A double is modelled by an exact symbolic value               *)
(*      <<tag, arg, n, d>>   denoting   tag(arg) + ln(n/d)                 *)
(* with tag "num" (arg an integer), "ln"/"logit" (arg a mean, see Mean     *)
(* below), "uninit" (storage that was allocated but never written).        *)
(* Rounding is not modelled: equalities are equalities of exact reals.     *)
(***************************************************************************)
EXTENDS Integers, Sequences, FiniteSets, TLC

(***************************************************************************)
(* Bounds of the model.                                                    *)
(***************************************************************************)
MaxK == 2
MaxF == 2
MaxDimNonlinear == 1
MaxDimLinear == 1

BOOL == {TRUE, FALSE}

(***************************************************************************)
(* Exact values <<tag, arg, i, n, d>>, denoting  T + i + ln(n/d)  where    *)
(* T is 0 for tag "num", ln(arg) for "ln", logit(arg) for "logit", and an  *)
(* unnamed real for "logsumexp" (arg the pooled values).                   *)
(***************************************************************************)
Num(i) == <<"num", 0, i, 1, 1>>
Uninit == <<"uninit", 0, 0, 1, 1>>
IsNum(v) == v[1] = "num" /\ v[4] = 1 /\ v[5] = 1
IntOf(v) == v[3]

RECURSIVE Gcd(_, _)
Gcd(a, b) == IF b = 0 THEN a ELSE Gcd(b, a % b)

\* v + ln(n/d), kept in lowest terms
ShiftLn(v, n, d) ==
    LET nn == v[4] * n
        dd == v[5] * d
        g  == Gcd(nn, dd)
    IN  <<v[1], v[2], v[3], nn \div g, dd \div g>>

\* v + i for an integer i
AddInt(v, i) == <<v[1], v[2], v[3] + i, v[4], v[5]>>

\* (mutant: the shift by log(numComponents) left out)
MinusLogDropped(v, k) == v

\* v - log(k)
MinusLog(v, k) == ShiftLn(v, 1, k)

\* sum of the fractions n/d of the values seq[1..k], as <<num, den>>
RECURSIVE SumFrac(_, _)
SumFrac(seq, k) ==
    IF k = 0 THEN <<0, 1>>
    ELSE LET r  == SumFrac(seq, k - 1)
             nn == r[1] * seq[k][5] + seq[k][4] * r[2]
             dd == r[2] * seq[k][5]
             g  == Gcd(nn, dd)
         IN  <<nn \div g, dd \div g>>

\* log(sum(exp(seq))) computed directly: when every value is the same real
\* up to its ln(n/d) part the exponentials add as fractions, otherwise the
\* result is a real without a closed form
LogOfSumOfExp(seq) ==
    IF \A c \in 1..Len(seq) :
           /\ seq[c][1] = seq[1][1] /\ seq[c][2] = seq[1][2]
           /\ seq[c][3] = seq[1][3]
    THEN LET r == SumFrac(seq, Len(seq))
         IN  <<seq[1][1], seq[1][2], seq[1][3], r[1], r[2]>>
    ELSE <<"logsumexp", seq, 0, 1, 1>>

(***************************************************************************)
(* Means <<a, b, c, e>>, denoting  a/b + c * 10^(-e)  with b > 0 and       *)
(* c in {-1, 0, 1}; e is at least 12, far below the gap between two        *)
(* different fractions a/b of the model, so means are ordered by a/b first *)
(* and by c * 10^(-e) second.                                              *)
(***************************************************************************)
Mean(a, b) == LET g == Gcd(IF a < 0 THEN -a ELSE a, b)
              IN  IF a = 0 THEN <<0, 1, 0, 0>> ELSE <<a \div g, b \div g, 0, 0>>
MeanLess(m, n) ==
    IF m[1] * n[2] # n[1] * m[2]
    THEN m[1] * n[2] < n[1] * m[2]
    ELSE \/ m[3] < 0 /\ n[3] >= 0
         \/ m[3] = 0 /\ n[3] > 0
         \/ m[3] > 0 /\ n[3] > 0 /\ m[4] > n[4]
         \/ m[3] < 0 /\ n[3] < 0 /\ m[4] < n[4]

(***************************************************************************)
(* Dense storage.  An Eigen matrix/vector is its shape and its column-major*)
(* data() array; element (r, c), 0-based, is data[c * rows + r + 1].       *)
(***************************************************************************)
Mat(r, c, d) == [rows |-> r, cols |-> c, data |-> d]
Size(m) == Len(m.data)
At(m, r, c) == m.data[c * m.rows + r + 1]

\* the random draws of the constructors: entry i of block b; the draws are
\* pairwise distinct so that a misplaced entry shows
Draw(b, i) == Num(10 * b + i)
RandomMat(b, r, c) == Mat(r, c, [i \in 1..(r * c) |-> Draw(b, i)])

\* Map<Matrix>(ptr + offset, rows, cols) over the flat array x, assigned to a
\* block: the block takes the map's shape and element (r, c) of the map is
\* x[offset + c * rows + r]
\* (mutant: the map read in row-major order)
MapIndexRowMajor(offset, r, c, i) ==
    LET row == (i - 1) % r
        col == (i - 1) \div r
    IN  offset + row * c + col + 1

MapIndex(offset, r, c, i) ==
    LET row == (i - 1) % r
        col == (i - 1) \div r
    IN  offset + col * r + row + 1

MatrixLBFGS(x, offset, r, c) ==
    Mat(r, c, [i \in 1..(r * c) |-> x[MapIndex(offset, r, c, i)]])

VectorLBFGS(x, offset, n) == MatrixLBFGS(x, offset, n, 1)

\* the entries of x a map of that shape covers
MapIndices(offset, r, c) == {MapIndex(offset, r, c, i) : i \in 1..(r * c)}

(***************************************************************************)
(* State of one STM object, the flat vector last handed out, and the       *)
(* record of the last packing operation.                                   *)
(***************************************************************************)
VARIABLES
    mDimInNonlinear, mDimInLinear, mNumComponents, mNumFeatures,
    mNonlinearity,
    mBiases, mWeights, mFeatures, mPredictors, mLinearPredictor,
    xbuf,       \* [valid, cfg, x]: the vector returned by parameters()
    lastOp,     \* the last call made (see Call below)
    mcbm,       \* the binned model: its dimensions and blocks
    tr,         \* the train call in progress or finished (see NoTrain)
    glm,        \* the plain-linear sub-model STM::train constructs
    resp,       \* the last response evaluated (see NoResp)
    gr,         \* the parameterGradient call in progress (see NoGradient)
    workers,    \* the parallel batch workers of that call
    lock        \* the holder of the critical section, 0 when free

stmVars == <<mDimInNonlinear, mDimInLinear, mNumComponents, mNumFeatures,
             mNonlinearity,
             mBiases, mWeights, mFeatures, mPredictors, mLinearPredictor>>
packVars == <<xbuf, lastOp, mcbm>>
trainVars == <<tr, glm, resp>>
gradVars == <<gr, workers, lock>>
vars == <<stmVars, packVars, trainVars, gradVars>>

dimInNonlinear == mDimInNonlinear
dimInLinear == mDimInLinear
dimIn == mDimInNonlinear + mDimInLinear
numComponents == mNumComponents

(***************************************************************************)
(* STM::Parameters: the five train flags.                                  *)
(***************************************************************************)
Flags == [trainBiases : BOOL, trainWeights : BOOL, trainFeatures : BOOL,
          trainPredictors : BOOL, trainLinearPredictor : BOOL]
DefaultParameters ==
    [trainBiases |-> TRUE, trainWeights |-> TRUE, trainFeatures |-> TRUE,
     trainPredictors |-> TRUE, trainLinearPredictor |-> TRUE]

(***************************************************************************)
(* STM::STM(dimInNonlinear, dimInLinear, numComponents, numFeatures, ...)  *)
(***************************************************************************)
STMConstruct(dnl, dl, k, f, nl) ==
    /\ dnl >= 0 /\ dl >= 0
    /\ k >= 1
    /\ mDimInNonlinear = dnl
    /\ mDimInLinear = dl
    /\ mNumComponents = k
    /\ mNumFeatures = (IF f < 0 THEN dnl ELSE f)
    /\ mNonlinearity = nl
    /\ mBiases = RandomMat(1, k, 1)
    /\ mWeights = RandomMat(2, k, IF f < 0 THEN dnl ELSE f)
    /\ mFeatures = RandomMat(3, dnl, IF f < 0 THEN dnl ELSE f)
    /\ mPredictors = RandomMat(4, k, dnl)
    /\ mLinearPredictor = RandomMat(5, dl, 1)

(***************************************************************************)
(* STM::numParameters, STM::parameters, STM::setParameters                 *)
(***************************************************************************)
\* (mutant: the count of a block added whether or not its flag is on)
AddSizeAlways(flag, n, block) == n + Size(block)

\* if(params.trainX) numParams += mX.size();
AddSize(flag, n, block) == IF flag THEN n + Size(block) ELSE n

numParameters(params) ==
    LET n0 == 0
        n1 == AddSize(params.trainBiases, n0, mBiases)
        n2 == AddSize(params.trainWeights, n1, mWeights)
        n3 == AddSize(params.trainFeatures, n2, mFeatures)
        n4 == AddSize(params.trainPredictors, n3, mPredictors)
        n5 == AddSize(params.trainLinearPredictor, n4, mLinearPredictor)
    IN  n5

lbfgs_malloc(n) == [i \in 1..n |-> Uninit]

\* (mutant: the write index k is not advanced with i)
CopyOutNoAdvance(st, flag, block) ==
    IF flag
    THEN [x |-> [j \in DOMAIN st.x |->
                   IF st.k < j /\ j <= st.k + Size(block)
                   THEN block.data[j - st.k] ELSE st.x[j]],
          k |-> st.k]
    ELSE st

\* for(int i = 0; i < block.size(); ++i, ++k) x[k] = block.data()[i];
CopyOut(st, flag, block) ==
    IF flag
    THEN [x |-> [j \in DOMAIN st.x |->
                   IF st.k < j /\ j <= st.k + Size(block)
                   THEN block.data[j - st.k] ELSE st.x[j]],
          k |-> st.k + Size(block)]
    ELSE st

parameters(params) ==
    LET s0 == [x |-> lbfgs_malloc(numParameters(params)), k |-> 0]
        s1 == CopyOut(s0, params.trainBiases, mBiases)
        s2 == CopyOut(s1, params.trainWeights, mWeights)
        s3 == CopyOut(s2, params.trainFeatures, mFeatures)
        s4 == CopyOut(s3, params.trainPredictors, mPredictors)
        s5 == CopyOut(s4, params.trainLinearPredictor, mLinearPredictor)
    IN  s5.x

\* the new blocks, the final offset and the set of indices of x that were read
\* (mutant: the offset is not moved past a block that was read)
AdvanceNever(flag, offset, block) == offset

\* if(params.trainX) { mX = ...; offset += mX.size(); }
Advance(flag, offset, block) == IF flag THEN offset + Size(block) ELSE offset

setParametersResult(x, params) ==
    LET o0 == 0
        b  == IF params.trainBiases
              THEN VectorLBFGS(x, 0, mNumComponents) ELSE mBiases
        o1 == Advance(params.trainBiases, o0, b)
        w  == IF params.trainWeights
              THEN MatrixLBFGS(x, o1, mNumComponents, mNumFeatures) ELSE mWeights
        o2 == Advance(params.trainWeights, o1, w)
        f  == IF params.trainFeatures
              THEN MatrixLBFGS(x, o2, dimInNonlinear, mNumFeatures) ELSE mFeatures
        o3 == Advance(params.trainFeatures, o2, f)
        p  == IF params.trainPredictors
              THEN MatrixLBFGS(x, o3, mNumComponents, dimInNonlinear) ELSE mPredictors
        o4 == Advance(params.trainPredictors, o3, p)
        l  == IF params.trainLinearPredictor
              THEN VectorLBFGS(x, o4, dimInLinear) ELSE mLinearPredictor
        o5 == Advance(params.trainLinearPredictor, o4, l)
    IN  [biases |-> b, weights |-> w, features |-> f, predictors |-> p,
         linearPredictor |-> l, offset |-> o5,
         read |-> (IF params.trainBiases
                   THEN MapIndices(0, mNumComponents, 1) ELSE {})
                  \cup (IF params.trainWeights
                        THEN MapIndices(o1, mNumComponents, mNumFeatures) ELSE {})
                  \cup (IF params.trainFeatures
                        THEN MapIndices(o2, dimInNonlinear, mNumFeatures) ELSE {})
                  \cup (IF params.trainPredictors
                        THEN MapIndices(o3, mNumComponents, dimInNonlinear) ELSE {})
                  \cup (IF params.trainLinearPredictor
                        THEN MapIndices(o4, dimInLinear, 1) ELSE {})]

(***************************************************************************)
(* MCBM: dimensions, block shapes (the shapes its setters accept) and      *)
(* MCBM::numParameters.                                                    *)
(***************************************************************************)
MCBMFlags == [trainPriors : BOOL, trainWeights : BOOL, trainFeatures : BOOL,
              trainPredictors : BOOL, trainInputBias : BOOL,
              trainOutputBias : BOOL]

MCBMConstruct(d, k, f) ==
    [mDimIn |-> d, mNumComponents |-> k,
     mNumFeatures |-> (IF f < 0 THEN d ELSE f),
     mPriors |-> RandomMat(6, k, 1),
     mWeights |-> RandomMat(7, k, IF f < 0 THEN d ELSE f),
     mFeatures |-> RandomMat(8, d, IF f < 0 THEN d ELSE f),
     mPredictors |-> RandomMat(9, k, d),
     mInputBias |-> RandomMat(10, d, k),
     mOutputBias |-> RandomMat(11, k, 1)]

MCBMnumParameters(params) ==
    LET n0 == 0
        n1 == IF params.trainPriors THEN n0 + Size(mcbm.mPriors) ELSE n0
        n2 == IF params.trainWeights THEN n1 + Size(mcbm.mWeights) ELSE n1
        n3 == IF params.trainFeatures THEN n2 + Size(mcbm.mFeatures) ELSE n2
        n4 == IF params.trainPredictors THEN n3 + Size(mcbm.mPredictors) ELSE n3
        n5 == IF params.trainInputBias THEN n4 + Size(mcbm.mInputBias) ELSE n4
        n6 == IF params.trainOutputBias THEN n5 + Size(mcbm.mOutputBias) ELSE n5
    IN  n6

(***************************************************************************)
(* Records of the training side, in their idle state.                      *)
(*   tr.pc     where the train call stands                                 *)
(*   tr.paths  the branches of STM::train that were entered                *)
(*   tr.mean   the empirical mean of the training output                   *)
(*   tr.gradCalls, tr.optRuns  calls of STM::parameterGradient and runs of *)
(*             the general optimizer on this model during the call         *)
(***************************************************************************)
NoTrain == [pc |-> "idle", paths |-> {}, mean |-> <<0, 1, 0, 0>>,
            cfg |-> DefaultParameters, cfgIsSTM |-> TRUE,
            hasInputVal |-> FALSE, hasOutputVal |-> FALSE,
            ret |-> FALSE, gradCalls |-> 0, optRuns |-> 0]
NoGLM == [exists |-> FALSE, weights |-> Mat(0, 1, <<>>), bias |-> Num(0),
          trainWeights |-> FALSE, trainBias |-> FALSE,
          usedVal |-> FALSE, converged |-> FALSE]
NoResp == [valid |-> FALSE, inputNonlinear |-> <<>>, inputLinear |-> <<>>,
           stm |-> Num(0), glm |-> Num(0)]

(***************************************************************************)
(* Records of a parameterGradient call, in their idle state.               *)
(*   gr.pc       "idle", "batches" (the parallel loop), "done", "threw",   *)
(*               or "aborted" (the process was stopped by a trap)          *)
(*   gr.x        the flat vector; gr.hasG: a gradient buffer g was given   *)
(*   gr.huge     the entries of x are those of gr.x times 1e200            *)
(*   gr.todo     the batch starts b no worker has taken yet                *)
(*   gr.ascending  every batch so far was taken in ascending order of b    *)
(*   gr.finished the batch starts whose iteration has ended                *)
(*   gr.logLik   the shared log-likelihood accumulator                     *)
(*   gr.grad     the shared gradient accumulators, one per block           *)
(*   gr.value, gr.g   what the call returns                                *)
(* A worker is idle or runs the iteration of batch b; k is its position in *)
(* the sequence of shared accumulators it updates, read the value it has   *)
(* loaded inside the critical section.                                     *)
(***************************************************************************)
NoRegularization ==
    [regularizer |-> "L2", regularizeWeights |-> 0, regularizeFeatures |-> 0,
     regularizePredictors |-> 0, regularizeLinearPredictor |-> 0]
NoGradient == [pc |-> "idle", numData |-> 0, configured |-> 0,
               batchSize |-> 0, cfg |-> DefaultParameters,
               reg |-> NoRegularization, hasG |-> FALSE, nanColumn |-> 0,
               huge |-> FALSE,
               x |-> <<>>, todo |-> {}, ascending |-> TRUE, finished |-> {},
               logLik |-> <<>>,
               grad |-> <<>>, value |-> <<>>, g |-> <<>>]
IdleWorker == [pc |-> "idle", b |-> 0, k |-> 0, read |-> <<>>]
NoWorkers == <<>>

(***************************************************************************)
(* The packing operations as actions.  lastOp records the last call: its   *)
(* name, its flags, the indices of x it read and the count it returned.    *)
(***************************************************************************)
NoBuf == [valid |-> FALSE, cfg |-> DefaultParameters, x |-> <<>>]
AllMCBMFlags ==
    [trainPriors |-> TRUE, trainWeights |-> TRUE, trainFeatures |-> TRUE,
     trainPredictors |-> TRUE, trainInputBias |-> TRUE, trainOutputBias |-> TRUE]
Call(op, cfg, mcfg, x, read, n) ==
    [op |-> op, cfg |-> cfg, mcfg |-> mcfg, x |-> x, read |-> read, n |-> n]

\* a call that tests its argument: the argument, the block stored before
\* the call, and whether the call threw
Checked(op, arg, before, threw) ==
    [op |-> op, cfg |-> DefaultParameters, mcfg |-> AllMCBMFlags, x |-> <<>>,
     read |-> {}, n |-> 0, arg |-> arg, before |-> before, threw |-> threw]

\* a caller-supplied flat vector of n entries, pairwise distinct
CallerX(n) == [i \in 1..n |-> Num(200 + i)]

\* the model still holds the blocks it was constructed with
AsConstructed ==
        /\ mBiases = RandomMat(1, mBiases.rows, mBiases.cols)
        /\ mWeights = RandomMat(2, mWeights.rows, mWeights.cols)
        /\ mFeatures = RandomMat(3, mFeatures.rows, mFeatures.cols)
        /\ mPredictors = RandomMat(4, mPredictors.rows, mPredictors.cols)
        /\ mLinearPredictor =
               RandomMat(5, mLinearPredictor.rows, mLinearPredictor.cols)

Parameters(params) ==
    /\ xbuf' = [valid |-> TRUE, cfg |-> params, x |-> parameters(params)]
    /\ lastOp' = Call("parameters", params, AllMCBMFlags, <<>>, {}, numParameters(params))
    /\ UNCHANGED <<stmVars, mcbm, trainVars, gradVars>>

SetParameters(x, params, op) ==
    LET r == setParametersResult(x, params)
    IN  /\ mBiases' = r.biases
        /\ mWeights' = r.weights
        /\ mFeatures' = r.features
        /\ mPredictors' = r.predictors
        /\ mLinearPredictor' = r.linearPredictor
        /\ xbuf' = NoBuf
        /\ lastOp' = Call(op, params, AllMCBMFlags, x, r.read, 0)
        /\ UNCHANGED <<mDimInNonlinear, mDimInLinear, mNumComponents,
                       mNumFeatures, mNonlinearity, mcbm, trainVars,
                       gradVars>>

\* setParameters on a vector the caller made up (one entry longer than
\* needed), given to a freshly constructed model
SetCallerParameters ==
    /\ lastOp.op = "new"
    /\ AsConstructed
    /\ \E params \in Flags :
         SetParameters(CallerX(numParameters(params) + 1), params,
                       "setParameters")

\* setParameters on the vector parameters() returned, same flags, same model
RoundTrip ==
    /\ xbuf.valid
    /\ SetParameters(xbuf.x, xbuf.cfg, "roundtrip")

\* parameters(), on the model as constructed or as set by the caller; the
\* vector handed out is given back (RoundTrip)
GetParameters ==
    /\ lastOp.op \in {"new", "setParameters"}
    /\ \E params \in Flags : Parameters(params)

\* the binned model is a separate object; it is queried before the mixture
\* model is used
CountMCBM ==
    /\ lastOp.op = "new"
    /\ \E params \in MCBMFlags :
          lastOp' = Call("numParametersMCBM", DefaultParameters, params, <<>>, {},
                         MCBMnumParameters(params))
    /\ UNCHANGED <<stmVars, mcbm, xbuf, trainVars, gradVars>>

Init ==
    /\ \E dnl \in 0..MaxDimNonlinear, dl \in 0..MaxDimLinear,
          k \in 1..MaxK, f \in (-1)..MaxF :
          /\ STMConstruct(dnl, dl, k, f, "logistic")
          /\ mcbm = MCBMConstruct(dnl, k, f)
    /\ xbuf = NoBuf
    /\ lastOp = Call("new", DefaultParameters, AllMCBMFlags, <<>>, {}, 0)
    /\ tr = NoTrain
    /\ glm = NoGLM
    /\ resp = NoResp
    /\ gr = NoGradient
    /\ workers = NoWorkers
    /\ lock = 0

Next ==
    \/ GetParameters
    \/ SetCallerParameters
    \/ RoundTrip
    \/ CountMCBM

Spec == Init /\ [][Next]_vars

(***************************************************************************)
(* Reference layout, stated independently of the operations: the blocks in *)
(* the fixed order, their train flags, and the total size of the flagged   *)
(* blocks among the first j.                                               *)
(***************************************************************************)
Blocks == <<mBiases, mWeights, mFeatures, mPredictors, mLinearPredictor>>
FlagSeq(cfg) == <<cfg.trainBiases, cfg.trainWeights, cfg.trainFeatures,
                  cfg.trainPredictors, cfg.trainLinearPredictor>>
Shapes == <<<<mNumComponents, 1>>, <<mNumComponents, mNumFeatures>>,
            <<mDimInNonlinear, mNumFeatures>>,
            <<mNumComponents, mDimInNonlinear>>, <<mDimInLinear, 1>>>>

RECURSIVE FlaggedSize(_, _, _)
FlaggedSize(flags, blocks, j) ==
    IF j = 0 THEN 0
    ELSE FlaggedSize(flags, blocks, j - 1)
         + (IF flags[j] THEN Size(blocks[j]) ELSE 0)

MCBMBlocks == <<mcbm.mPriors, mcbm.mWeights, mcbm.mFeatures,
                mcbm.mPredictors, mcbm.mInputBias, mcbm.mOutputBias>>
MCBMFlagSeq(cfg) == <<cfg.trainPriors, cfg.trainWeights, cfg.trainFeatures,
                      cfg.trainPredictors, cfg.trainInputBias,
                      cfg.trainOutputBias>>

\* C1: parameters(config) followed by setParameters(returned vector, same
\* config) on the same model leaves all five blocks with exactly the
\* contents they had before, for every shape and every flag combination.
C1_RoundTrip ==
    [][RoundTrip =>
         /\ mBiases' = mBiases
         /\ mWeights' = mWeights
         /\ mFeatures' = mFeatures
         /\ mPredictors' = mPredictors
         /\ mLinearPredictor' = mLinearPredictor]_vars

\* a round trip with every flag on has been made on a model with a 2 x 2
\* weight block whose blocks had been replaced by a caller's vector
C1_Witness ==
    /\ lastOp.op = "roundtrip"
    /\ lastOp.cfg = DefaultParameters
    /\ ~AsConstructed
    /\ mWeights.rows = 2 /\ mWeights.cols = 2
    /\ Size(mFeatures) > 0 /\ Size(mLinearPredictor) > 0

\* C2: numParameters(config) is the sum of the sizes of exactly the flagged
\* blocks (0 when none is flagged), for the mixture model's five blocks and
\* the binned model's six blocks, in every shape.
C2_NumParameters ==
    /\ \A cfg \in Flags :
          numParameters(cfg) = FlaggedSize(FlagSeq(cfg), Blocks, 5)
    /\ \A cfg \in MCBMFlags :
          MCBMnumParameters(cfg) = FlaggedSize(MCBMFlagSeq(cfg), MCBMBlocks, 6)
    /\ lastOp.op = "parameters" =>
          lastOp.n = FlaggedSize(FlagSeq(lastOp.cfg), Blocks, 5)
    /\ lastOp.op = "numParametersMCBM" =>
          lastOp.n = FlaggedSize(MCBMFlagSeq(lastOp.mcfg), MCBMBlocks, 6)

\* the binned model was asked for the count of some but not all of its
\* blocks, with non-empty blocks flagged and non-empty blocks not flagged
C2_Witness ==
    /\ lastOp.op = "numParametersMCBM"
    /\ lastOp.mcfg.trainWeights /\ ~lastOp.mcfg.trainInputBias
    /\ ~lastOp.mcfg.trainPriors /\ lastOp.mcfg.trainOutputBias
    /\ Size(mcbm.mWeights) > 0 /\ Size(mcbm.mInputBias) > 0
    /\ lastOp.n > 0
    /\ Size(mWeights) > 0 /\ Size(mLinearPredictor) > 0

\* C3: parameters(config) returns a vector of length numParameters(config)
\* holding the flagged blocks back to back in the order biases, weights,
\* features, predictors, linearPredictor; a flagged block starts at the total
\* size of the flagged blocks before it, non-flagged blocks contribute no
\* entry, and every entry is written.
C3_ParametersLayout ==
    xbuf.valid =>
        /\ Len(xbuf.x) = numParameters(xbuf.cfg)
        /\ Len(xbuf.x) = FlaggedSize(FlagSeq(xbuf.cfg), Blocks, 5)
        /\ \A j \in 1..5 :
              FlagSeq(xbuf.cfg)[j] =>
                  \A i \in 1..Size(Blocks[j]) :
                      xbuf.x[FlaggedSize(FlagSeq(xbuf.cfg), Blocks, j - 1) + i]
                          = Blocks[j].data[i]
        /\ \A i \in 1..Len(xbuf.x) : xbuf.x[i] # Uninit

\* a vector was returned for flags that skip a non-empty block lying between
\* two flagged non-empty blocks
C3_Witness ==
    /\ xbuf.valid
    /\ xbuf.cfg.trainBiases /\ ~xbuf.cfg.trainWeights /\ xbuf.cfg.trainFeatures
    /\ xbuf.cfg.trainLinearPredictor
    /\ Size(mWeights) > 0 /\ Size(mFeatures) > 0 /\ Size(mLinearPredictor) > 0

\* C4: setParameters(x, config) sets each flagged block to the span of x
\* that parameters(config) would have written for it (same order, offsets
\* and shape), leaves every non-flagged block as it was, and reads no entry
\* of x at or beyond index numParameters(config).
C4_SetParametersFrame ==
    [][lastOp'.op \in {"setParameters", "roundtrip"} =>
         LET cfg == lastOp'.cfg
             x   == lastOp'.x
             new == <<mBiases', mWeights', mFeatures', mPredictors',
                      mLinearPredictor'>>
         IN  /\ \A j \in 1..5 :
                   IF FlagSeq(cfg)[j]
                   THEN /\ new[j].rows = Shapes[j][1]
                        /\ new[j].cols = Shapes[j][2]
                        /\ Len(new[j].data) = Shapes[j][1] * Shapes[j][2]
                        /\ \A i \in 1..Len(new[j].data) :
                              new[j].data[i] =
                                x[FlaggedSize(FlagSeq(cfg), Blocks, j - 1) + i]
                   ELSE new[j] = Blocks[j]
             /\ \A i \in lastOp'.read :
                   1 <= i /\ i <= FlaggedSize(FlagSeq(cfg), Blocks, 5)
        ]_vars

\* a caller's vector with one entry more than needed was written back with
\* a non-empty block skipped between two flagged non-empty blocks
C4_Witness ==
    /\ lastOp.op = "setParameters"
    /\ Len(lastOp.x) > numParameters(lastOp.cfg)
    /\ lastOp.cfg.trainBiases /\ ~lastOp.cfg.trainWeights
    /\ lastOp.cfg.trainFeatures /\ lastOp.cfg.trainLinearPredictor
    /\ Size(mWeights) > 0 /\ Size(mFeatures) > 0 /\ Size(mLinearPredictor) > 0

(***************************************************************************)
(* Nonlinearities (include/nonlinearities.h): which facets each class has, *)
(* and the inverse of the invertible ones.                                 *)
(***************************************************************************)
Invertible(nl) == nl \in {"logistic", "exponential"}
Differentiable(nl) == nl \in {"logistic", "exponential", "blob"}

Tiny == <<0, 1, 1, 50>>              \* 1e-50
Epsilon == <<0, 1, 1, 12>>           \* mEpsilon = 1e-12
OneMinusEpsilon == <<1, 1, -1, 12>>  \* 1 - mEpsilon

\* LogisticFunction::inverse clamps its argument into [epsilon, 1 - epsilon]
ClampMean(m) ==
    IF MeanLess(m, Epsilon) THEN Epsilon
    ELSE IF MeanLess(OneMinusEpsilon, m) THEN OneMinusEpsilon
    ELSE m

inverse(nl, m) ==
    IF nl = "logistic" THEN <<"logit", ClampMean(m), 0, 1, 1>>
    ELSE <<"ln", m, 0, 1, 1>>

(***************************************************************************)
(* STM::response                                                           *)
(***************************************************************************)
RECURSIVE SumTo(_, _)
SumTo(f, n) == IF n = 0 THEN 0 ELSE SumTo(f, n - 1) + f[n]

\* vector . column, both with integer entries
Dot(v, x) == SumTo([d \in 1..Len(x) |-> IntOf(v.data[d]) * x[d]], Len(x))

\* doubles: exp(v) is +infinity for v above ExpMax and 0 for v below ExpMin
ExpMax == 709
ExpMin == -745
PlusInfinity == <<"inf", 0, 0, 1, 1>>
MinusInfinity == <<"-inf", 0, 0, 1, 1>>
ExpOverflows(v) == v[1] = "num" /\ v[3] > ExpMax
ExpVanishes(v) == v[1] = "num" /\ v[3] < ExpMin

\* log(seq.array().exp().sum()): the exponentials are taken as they are
NaiveLogSumExp(seq) ==
    IF \E c \in 1..Len(seq) : ExpOverflows(seq[c]) THEN PlusInfinity
    ELSE IF \A c \in 1..Len(seq) : ExpVanishes(seq[c]) THEN MinusInfinity
    ELSE LogOfSumOfExp(seq)

\* (mutant: the first bias taken whatever the number of components)
FirstBias == mBiases.data[1]

\* numComponents() > 1 ? log(mBiases.array().exp().sum()) : mBiases[0]
PooledBias ==
    IF numComponents > 1 THEN NaiveLogSumExp(mBiases.data) ELSE mBiases.data[1]

\* mWeights * (mFeatures^T * x)^2 + mPredictors * x, colwise += mBiases
JointEnergy(x) ==
    [c \in 1..mNumComponents |->
        AddInt(mBiases.data[c],
            SumTo([f \in 1..mNumFeatures |->
                     IntOf(At(mWeights, c - 1, f - 1))
                     * SumTo([d \in 1..mDimInNonlinear |->
                                IntOf(At(mFeatures, d - 1, f - 1)) * x[d]],
                             mDimInNonlinear)
                     * SumTo([d \in 1..mDimInNonlinear |->
                                IntOf(At(mFeatures, d - 1, f - 1)) * x[d]],
                             mDimInNonlinear)],
                  mNumFeatures)
            + SumTo([d \in 1..mDimInNonlinear |->
                       IntOf(At(mPredictors, c - 1, d - 1)) * x[d]],
                    mDimInNonlinear))]

\* logSumExp down a column of component energies: the maximum is taken out
\* before the exponentials, the result is the exact real
logSumExp(energies) == LogOfSumOfExp(energies)

\* response(input) for a model without linear inputs
responseNonlinear(x) ==
    IF dimIn = 0 THEN PooledBias
    ELSE logSumExp(JointEnergy(x))

\* response(inputNonlinear, inputLinear) for one column
response(xnl, xl) ==
    IF dimInLinear = 0 THEN responseNonlinear(xnl)
    ELSE IF dimInNonlinear = 0
         THEN AddInt(PooledBias, Dot(mLinearPredictor, xl))
         ELSE AddInt(logSumExp(JointEnergy(xnl)), Dot(mLinearPredictor, xl))

\* the sub-model's response: bias + weights . x
GLMresponse(g, xl) == AddInt(g.bias, Dot(g.weights, xl))

(***************************************************************************)
(* STM::train                                                              *)
(***************************************************************************)
MaxN == 2
MaxIter == 2
OutputValues == {0, 1}
InputValues == {-1, 2}
GLMValues == {-1, 3}

\* (mutant: the nonlinear dimensionality tested before the total one)
TrainPathNonlinearFirst ==
    IF dimInNonlinear = 0 THEN "glm"
    ELSE IF dimIn = 0 THEN "closed"
    ELSE "general"

\* if(!dimIn()) ... else if(!dimInNonlinear()) ... else ...
TrainPath ==
    IF dimIn = 0 THEN "closed"
    ELSE IF dimInNonlinear = 0 THEN "glm"
    ELSE "general"

SetConstant(m, v) == Mat(m.rows, m.cols, [i \in 1..Size(m) |-> v])

Enter(path, mean, cfg, isSTM, inVal, outVal) ==
    [tr EXCEPT !.paths = @ \cup {path}, !.mean = mean, !.cfg = cfg,
               !.cfgIsSTM = isSTM, !.hasInputVal = inVal,
               !.hasOutputVal = outVal]

\* the arguments of a train call that no branch but the one taken looks at
TrainArgs(cfg, isSTM, inVal, outVal) ==
    /\ cfg \in {DefaultParameters,
                [DefaultParameters EXCEPT !.trainBiases = FALSE],
                [DefaultParameters EXCEPT !.trainLinearPredictor = FALSE]}
    /\ isSTM \in BOOL /\ inVal \in BOOL /\ outVal \in BOOL

\* (mutant: the biases cleared before the nonlinearity is tested)
BiasesClearedBeforeTest == SetConstant(mBiases, Num(0))

\* the biases when the closed-form fit throws: the throw precedes the only
\* assignment to mBiases
BiasesAtThrow == mBiases

\* zero total input dimensionality: the closed-form fit
TrainZeroInput ==
    /\ tr.pc = "idle"
    /\ TrainPath = "closed"
    /\ \E n \in 1..MaxN : \E output \in [1..n -> OutputValues] :
       \E cfg \in Flags, isSTM \in BOOL, inVal \in BOOL, outVal \in BOOL :
         /\ TrainArgs(cfg, isSTM, inVal, outVal)
         /\ LET mean0 == Mean(SumTo(output, n), n)
                mean  == IF ~MeanLess(mean0, <<0, 1, 0, 0>>)
                            /\ MeanLess(mean0, Tiny)
                         THEN Tiny ELSE mean0
                e     == Enter("closed", mean0, cfg, isSTM, inVal, outVal)
            IN  IF ~Invertible(mNonlinearity)
                THEN /\ tr' = [e EXCEPT !.pc = "threw"]
                     /\ mBiases' = BiasesAtThrow
                ELSE /\ mBiases' = SetConstant(mBiases,
                            MinusLog(inverse(mNonlinearity, mean), numComponents))
                     /\ tr' = [e EXCEPT !.pc = "returned", !.ret = TRUE]
    /\ UNCHANGED <<mDimInNonlinear, mDimInLinear, mNumComponents, mNumFeatures,
                   mNonlinearity, mWeights, mFeatures, mPredictors,
                   mLinearPredictor, packVars, glm, resp, gradVars>>

\* zero nonlinear dimensionality: the sub-model is constructed and its
\* training begins
TrainLinearOnly ==
    /\ tr.pc = "idle"
    /\ TrainPath = "glm"
    /\ \E rows \in {dimInLinear, dimInLinear + 1} :
       \E cfg \in Flags, isSTM \in BOOL, inVal \in BOOL, outVal \in BOOL :
         /\ TrainArgs(cfg, isSTM, inVal, outVal)
         /\ LET e == Enter("glm", tr.mean, cfg, isSTM, inVal, outVal)
            IN  IF dimInLinear # rows
                THEN /\ tr' = [e EXCEPT !.pc = "threw"]
                     /\ UNCHANGED glm
                ELSE IF ~isSTM
                THEN /\ tr' = [e EXCEPT !.pc = "threw"]
                     /\ UNCHANGED glm
                ELSE /\ tr' = [e EXCEPT !.pc = "glmTraining"]
                     /\ glm' = [exists |-> TRUE,
                                weights |-> RandomMat(12, dimInLinear, 1),
                                bias |-> Draw(13, 1),
                                trainWeights |-> TRUE, trainBias |-> TRUE,
                                usedVal |-> (inVal /\ outVal),
                                converged |-> FALSE]
    /\ UNCHANGED <<stmVars, packVars, resp, gradVars>>

\* (mutant: the fitted parameters copied only from a converged sub-model)
GLMCopyIfConverged(g) ==
    IF g.converged
    THEN [linearPredictor |-> g.weights,
          biases |-> SetConstant(mBiases, MinusLog(g.bias, numComponents))]
    ELSE [linearPredictor |-> mLinearPredictor, biases |-> mBiases]

\* mLinearPredictor = glm.weights();
\* mBiases.setConstant(glm.bias() - log(numComponents()));
GLMCopy(g) ==
    [linearPredictor |-> g.weights,
     biases |-> SetConstant(mBiases, MinusLog(g.bias, numComponents))]

\* glm.train(...) comes back (or throws) and the fitted parameters are copied
TrainLinearOnlyFinish ==
    /\ tr.pc = "glmTraining"
    /\ IF ~Differentiable(mNonlinearity)
       THEN /\ tr' = [tr EXCEPT !.pc = "threw"]
            /\ UNCHANGED <<glm, mBiases, mLinearPredictor>>
       ELSE \E w \in [1..dimInLinear -> GLMValues], b \in GLMValues,
               converged \in BOOL :
              LET g == [glm EXCEPT
                          !.weights = Mat(dimInLinear, 1,
                                          [i \in 1..dimInLinear |-> Num(w[i])]),
                          !.bias = Num(b), !.converged = converged]
              IN  /\ glm' = g
                  /\ mLinearPredictor' = GLMCopy(g).linearPredictor
                  /\ mBiases' = GLMCopy(g).biases
                  /\ tr' = [tr EXCEPT !.pc = "returned", !.ret = converged]
    /\ UNCHANGED <<mDimInNonlinear, mDimInLinear, mNumComponents, mNumFeatures,
                   mNonlinearity, mWeights, mFeatures, mPredictors,
                   packVars, resp, gradVars>>

\* otherwise: Trainable::train; it asks for the flat vector first
TrainGeneral ==
    /\ tr.pc = "idle"
    /\ TrainPath = "general"
    /\ \E cfg \in Flags, isSTM \in BOOL, inVal \in BOOL, outVal \in BOOL :
         /\ TrainArgs(cfg, isSTM, inVal, outVal)
         /\ LET e == Enter("general", tr.mean, cfg, isSTM, inVal, outVal)
            IN  IF ~isSTM
                THEN /\ tr' = [e EXCEPT !.pc = "threw", !.optRuns = @ + 1]
                     /\ UNCHANGED xbuf
                ELSE /\ tr' = [e EXCEPT !.pc = "optimizing", !.optRuns = @ + 1]
                     /\ xbuf' = [valid |-> TRUE, cfg |-> cfg,
                                 x |-> parameters(cfg)]
    /\ UNCHANGED <<stmVars, lastOp, mcbm, glm, resp, gradVars>>

\* the vector the solver holds after its k-th evaluation
SolverX(k, n) == [i \in 1..n |-> Num(30 + 10 * k + i)]

\* one solver iteration: STM::parameterGradient is called on the vector
OptimizerIterate ==
    /\ tr.pc = "optimizing"
    /\ tr.gradCalls < MaxIter
    /\ IF ~Differentiable(mNonlinearity)
       THEN /\ tr' = [tr EXCEPT !.pc = "threw", !.gradCalls = @ + 1]
            /\ xbuf' = NoBuf
       ELSE /\ tr' = [tr EXCEPT !.gradCalls = @ + 1]
            /\ xbuf' = [xbuf EXCEPT !.x = SolverX(tr.gradCalls + 1, Len(xbuf.x))]
    /\ UNCHANGED <<stmVars, lastOp, mcbm, glm, resp, gradVars>>

\* the solver stops; the vector is written back and train returns
OptimizerFinish ==
    /\ tr.pc = "optimizing"
    /\ tr.gradCalls >= 1
    /\ LET r == setParametersResult(xbuf.x, xbuf.cfg)
       IN  /\ mBiases' = r.biases
           /\ mWeights' = r.weights
           /\ mFeatures' = r.features
           /\ mPredictors' = r.predictors
           /\ mLinearPredictor' = r.linearPredictor
    /\ xbuf' = NoBuf
    /\ \E converged \in BOOL :
          tr' = [tr EXCEPT !.pc = "returned", !.ret = converged]
    /\ UNCHANGED <<mDimInNonlinear, mDimInLinear, mNumComponents, mNumFeatures,
                   mNonlinearity, lastOp, mcbm, glm, resp, gradVars>>

\* response of the trained model to one input column, and of the sub-model
Respond ==
    /\ tr.pc = "returned"
    /\ \E xnl \in [1..dimInNonlinear -> InputValues],
          xl \in [1..dimInLinear -> InputValues] :
          resp' = [valid |-> TRUE, inputNonlinear |-> xnl, inputLinear |-> xl,
                   stm |-> response(xnl, xl),
                   glm |-> IF glm.exists THEN GLMresponse(glm, xl) ELSE Num(0)]
    /\ UNCHANGED <<stmVars, packVars, tr, glm, gradVars>>

InitTrain ==
    /\ \E dnl \in 0..MaxDimNonlinear, dl \in 0..MaxDimLinear, k \in 1..MaxK,
          nl \in {"logistic", "exponential", "histogram", "blob"} :
          /\ STMConstruct(dnl, dl, k, -1, nl)
          /\ mcbm = MCBMConstruct(dnl, k, -1)
    /\ xbuf = NoBuf
    /\ lastOp = Call("new", DefaultParameters, AllMCBMFlags, <<>>, {}, 0)
    /\ tr = NoTrain
    /\ glm = NoGLM
    /\ resp = NoResp
    /\ gr = NoGradient
    /\ workers = NoWorkers
    /\ lock = 0

NextTrain ==
    \/ TrainZeroInput
    \/ TrainLinearOnly
    \/ TrainLinearOnlyFinish
    \/ TrainGeneral
    \/ OptimizerIterate
    \/ OptimizerFinish
    \/ Respond

SpecTrain == InitTrain /\ [][NextTrain]_vars

\* C5: every train call takes exactly one of three paths, chosen by the
\* dimensions alone and before any optimizer work: the closed form when
\* D_nl + D_l = 0, the sub-model when D_nl = 0 < D_l, the general optimizer
\* when D_nl > 0; on the first two the general optimizer and
\* STM::parameterGradient are never invoked.
C5_TrainPaths ==
    /\ tr.pc # "idle" =>
         /\ Cardinality(tr.paths) = 1
         /\ mDimInNonlinear + mDimInLinear = 0 => tr.paths = {"closed"}
         /\ mDimInNonlinear = 0 /\ mDimInLinear > 0 => tr.paths = {"glm"}
         /\ mDimInNonlinear > 0 => tr.paths = {"general"}
    /\ tr.pc = "glmTraining" => tr.paths = {"glm"}
    /\ tr.pc = "optimizing" => tr.paths = {"general"}
    /\ tr.paths \cap {"closed", "glm"} # {} =>
         tr.gradCalls = 0 /\ tr.optRuns = 0
    /\ (tr.gradCalls > 0 \/ tr.optRuns > 0) => tr.paths = {"general"}

\* a train call on a model without any input has returned
C5_Witness ==
    /\ tr.pc = "returned"
    /\ mDimInNonlinear = 0 /\ mDimInLinear = 0
    /\ tr.paths = {"closed"}
    /\ mNumComponents = 2

\* C6 as stated: with zero total input dimensionality and an invertible
\* nonlinearity, train on outputs of empirical mean p sets every bias to
\* inverse(p) - ln(K) for every p including p = 0, returns true and performs
\* no optimizer iteration or objective evaluation.
C6_AsStated ==
    (tr.pc = "returned" /\ tr.paths = {"closed"}) =>
        /\ \A c \in 1..Size(mBiases) :
              mBiases.data[c] =
                  ShiftLn(inverse(mNonlinearity, tr.mean), 1, mNumComponents)
        /\ tr.ret
        /\ tr.gradCalls = 0 /\ tr.optRuns = 0

\* C6 as amended: the same for every p outside [0, 1e-50); for p in
\* [0, 1e-50), in particular p = 0, every bias is inverse(1e-50) - ln(K).
C6_ClosedForm ==
    (tr.pc = "returned" /\ tr.paths = {"closed"}) =>
        /\ Size(mBiases) = mNumComponents
        /\ \A c \in 1..Size(mBiases) :
              mBiases.data[c] =
                  ShiftLn(inverse(mNonlinearity,
                                  IF tr.mean = <<0, 1, 0, 0>> THEN Tiny
                                  ELSE tr.mean),
                          1, mNumComponents)
        /\ tr.ret
        /\ tr.gradCalls = 0 /\ tr.optRuns = 0

\* a two-component model with the exponential nonlinearity was fitted to
\* outputs that are all zero
C6_Witness ==
    /\ tr.pc = "returned" /\ tr.paths = {"closed"}
    /\ tr.mean = <<0, 1, 0, 0>>
    /\ mNonlinearity = "exponential"
    /\ mNumComponents = 2
    /\ mBiases.data[2] = <<"ln", Tiny, 0, 1, 2>>

\* C7: on the linear-only path, when train returns, linearPredictor is the
\* sub-model's weight vector and each of the K biases is the sub-model's
\* bias minus ln(K), converged or not; train returns the sub-model's
\* convergence flag; the sub-model was trained with validation data exactly
\* when both validation input and output were supplied.
C7_LinearOnlyCopy ==
    (tr.pc = "returned" /\ tr.paths = {"glm"}) =>
        /\ mLinearPredictor = glm.weights
        /\ Size(mBiases) = mNumComponents
        /\ \A c \in 1..Size(mBiases) :
              mBiases.data[c] = ShiftLn(glm.bias, 1, mNumComponents)
        /\ tr.ret = glm.converged
        /\ glm.usedVal = (tr.hasInputVal /\ tr.hasOutputVal)

\* the sub-model did not converge, only validation input was supplied, and
\* the parameters of a two-component model were nevertheless replaced
C7_Witness ==
    /\ tr.pc = "returned" /\ tr.paths = {"glm"}
    /\ ~glm.converged /\ ~tr.ret
    /\ tr.hasInputVal /\ ~tr.hasOutputVal
    /\ mNumComponents = 2
    /\ mLinearPredictor.data[1] = Num(3)

MinBatch == 10
MaxThreads == 2
MaxBatches == 3

MinOf(a, b) == IF a < b THEN a ELSE b
MaxOf(a, b) == IF a > b THEN a ELSE b

Zero(n) == [c \in 1..n |-> 0]
Terms(cols, n) == [c \in 1..n |-> IF c \in cols THEN 1 ELSE 0]
Plus(s, t) == [c \in DOMAIN s |-> s[c] + t[c]]
Minus(s, t) == [c \in DOMAIN s |-> s[c] - t[c]]

\* the views over x (flagged blocks) or over the stored blocks
Views(x, params) ==
    LET o0 == 0
        b  == IF params.trainBiases
              THEN VectorLBFGS(x, 0, mNumComponents) ELSE mBiases
        o1 == IF params.trainBiases THEN o0 + Size(b) ELSE o0
        w  == IF params.trainWeights
              THEN MatrixLBFGS(x, o1, mNumComponents, mNumFeatures) ELSE mWeights
        o2 == IF params.trainWeights THEN o1 + Size(w) ELSE o1
        f  == IF params.trainFeatures
              THEN MatrixLBFGS(x, o2, dimInNonlinear, mNumFeatures) ELSE mFeatures
        o3 == IF params.trainFeatures THEN o2 + Size(f) ELSE o2
        p  == IF params.trainPredictors
              THEN MatrixLBFGS(x, o3, mNumComponents, dimInNonlinear) ELSE mPredictors
        o4 == IF params.trainPredictors THEN o3 + Size(p) ELSE o3
        l  == IF params.trainLinearPredictor
              THEN VectorLBFGS(x, o4, dimInLinear) ELSE mLinearPredictor
        o5 == IF params.trainLinearPredictor THEN o4 + Size(l) ELSE o4
    IN  [block |-> <<b, w, f, p, l>>, start |-> <<o0, o1, o2, o3, o4>>,
         offset |-> o5]

\* if(g) { if(params.trainX) XGrad.setZero(); ... }
ZeroedGradients(params, hasG, n) ==
    [j \in 1..5 |-> IF hasG /\ FlagSeq(params)[j] THEN Zero(n) ELSE <<>>]

\* int batchSize = min(max(params.batchSize, 10), numData);
BatchSize(configured, numData) == MinOf(MaxOf(configured, MinBatch), numData)

\* (mutant: the loop ends after its first iteration)
BatchStartsOnce(numData, batchSize) == IF numData > 0 THEN {0} ELSE {}

\* for(int b = 0; b < inputCompl.cols(); b += batchSize)
BatchStarts(numData, batchSize) ==
    {b \in 0..(numData - 1) : b % batchSize = 0}

\* int width = min(batchSize, numData - b);
Width(batchSize, numData, b) == MinOf(batchSize, numData - b)

\* the columns of block(0, b, rows, width) and middleCols(b, width)
BatchColumns(b, width) == (b + 1)..(b + width)

\* the terms one batch iteration adds to an accumulator
BatchTerms(b) ==
    Terms(BatchColumns(b, Width(gr.batchSize, gr.numData, b)), gr.numData)

\* the shared accumulators one iteration updates, in order: 0 is logLik,
\* 1..5 the gradient blocks
Targets(params, hasG) ==
    <<0>> \o (IF hasG
              THEN SelectSeq(<<1, 2, 3, 4, 5>>,
                       LAMBDA j : /\ FlagSeq(params)[j]
                                  /\ (j = 5 => dimInLinear > 0))
              ELSE <<>>)

\* the regularization strength of block j (the biases have none)
Strength(reg, j) ==
    <<0, reg.regularizeWeights, reg.regularizeFeatures,
      reg.regularizePredictors, reg.regularizeLinearPredictor>>[j]

\* (mutant: a block is penalized whether or not it is flagged)
RegularizedUnflagged(params, reg, j) == Strength(reg, j) > 0

\* params.trainX && params.regularizeX > 0.
Regularized(params, reg, j) == FlagSeq(params)[j] /\ Strength(reg, j) > 0

signum(i) == IF i > 0 THEN 1 ELSE IF i < 0 THEN -1 ELSE 0
AbsOf(i) == IF i < 0 THEN -i ELSE i

\* what the switch over params.regularizer adds to the gradient entry of a
\* parameter of block j with value v
RegularizerGradient(params, reg, j, v) ==
    IF ~Regularized(params, reg, j) THEN 0
    ELSE IF reg.regularizer = "L1" THEN Strength(reg, j) * signum(v)
    ELSE IF reg.regularizer = "L2" THEN Strength(reg, j) * 2 * v
    ELSE 0

\* what the switch over params.regularizer adds to the value
RegularizerValue(params, reg, views) ==
    LET Penalty(j) ==
            LET d == views.block[j].data
            IN  IF ~Regularized(params, reg, j) THEN 0
                ELSE IF reg.regularizer = "L1"
                THEN Strength(reg, j)
                     * SumTo([i \in 1..Len(d) |-> AbsOf(IntOf(d[i]))], Len(d))
                ELSE IF reg.regularizer = "L2"
                THEN Strength(reg, j)
                     * SumTo([i \in 1..Len(d) |-> IntOf(d[i]) * IntOf(d[i])],
                             Len(d))
                ELSE 0
    IN  Penalty(3) + Penalty(4) + Penalty(2) + Penalty(5)

\* (mutant: the sum of squares never exceeds the largest double)
RegularizerSaturates(params, reg, views, huge) == FALSE

\* value += params.regularizeX * X.array().square().sum() is +infinity when
\* the square of an entry overflows
RegularizerOverflows(params, reg, views, huge) ==
    /\ huge
    /\ reg.regularizer = "L2"
    /\ \E j \in 2..5 :
          /\ Regularized(params, reg, j)
          /\ \E i \in 1..Size(views.block[j]) :
                IntOf(views.block[j].data[i]) # 0

\* g[i] /= normConst for i < offset, then the regularizer: entry p of g is
\* the accumulated sum of its block over normConst = cols * log(2) * dimOut,
\* plus the penalty term
GradientEntries(params, reg, hasG, views, grad, n) ==
    IF ~hasG THEN <<>>
    ELSE [p \in 1..views.offset |->
            LET j == CHOOSE jj \in 1..5 :
                        /\ FlagSeq(params)[jj]
                        /\ p \in MapIndices(views.start[jj],
                                            views.block[jj].rows,
                                            views.block[jj].cols)
                blk == views.block[j]
                i == CHOOSE ii \in 1..Size(blk) :
                        MapIndex(views.start[j], blk.rows, blk.cols, ii) = p
            IN  [block |-> j, sum |-> grad[j], cols |-> n,
                 penalty |-> RegularizerGradient(params, reg, j,
                                                 IntOf(blk.data[i]))]]

\* double value = -logLik / normConst, plus the penalty; a NaN is replaced
\* by the largest finite double
ObjectiveValue(params, reg, views, logLik, n, nanColumn, huge) ==
    IF n = 0 \/ (nanColumn # 0 /\ logLik[nanColumn] # 0)
    THEN \* 0 / 0, or a NaN term in logLik: value != value
         [max |-> TRUE, inf |-> FALSE, sum |-> <<>>, cols |-> 0,
          penalty |-> 0]
    ELSE IF RegularizerOverflows(params, reg, views, huge)
    THEN \* finite + infinity: value is +infinity, value == value
         [max |-> FALSE, inf |-> TRUE, sum |-> <<>>, cols |-> 0,
          penalty |-> 0]
    ELSE [max |-> FALSE, inf |-> FALSE, sum |-> Minus(Zero(n), logLik),
          cols |-> n, penalty |-> RegularizerValue(params, reg, views)]

(***************************************************************************)
(* The inputs of the modelled calls.                                       *)
(***************************************************************************)
GradientFlags ==
    {DefaultParameters,
     [DefaultParameters EXCEPT !.trainWeights = FALSE, !.trainFeatures = FALSE,
                               !.trainPredictors = FALSE],
     [DefaultParameters EXCEPT !.trainBiases = FALSE,
                               !.trainLinearPredictor = FALSE,
                               !.trainPredictors = FALSE]}
Regularizations ==
    {NoRegularization,
     [NoRegularization EXCEPT !.regularizer = "L1", !.regularizeWeights = 1,
                              !.regularizeFeatures = 2,
                              !.regularizeLinearPredictor = 1],
     [NoRegularization EXCEPT !.regularizeFeatures = 1,
                              !.regularizePredictors = 1]}
\* the point x at which the solver asks for the objective: entries of both
\* signs and zero
GradientX(n) == [i \in 1..n |-> Num(((2 * i) % 5) - 2)]
NumDataValues ==
    {0, 1, MinBatch, MinBatch + 1, (MaxBatches - 1) * MinBatch + 1}
ConfiguredBatchSizes(n) ==
    {0, MinBatch + 1, n, n + 1} \cup (IF n <= 1 THEN {-1} ELSE {})
\* the column whose log-likelihood term is NaN (0: none)
NaNColumns(reg, n) == IF reg = NoRegularization THEN {0, n} ELSE {0}
\* whether the entries of x are scaled to a magnitude (1e200) whose square
\* is beyond the largest double
HugeX(n) == IF n <= 1 THEN BOOL ELSE {FALSE}

(***************************************************************************)
(* parameterGradient up to the parallel loop: the test of the              *)
(* nonlinearity, the views, the zeroing of the flagged gradient blocks,    *)
(* the batch size.                                                         *)
(***************************************************************************)
\* (mutant: the test of the nonlinearity placed after the views on x are
\* made and g is zeroed)
ThrownAfterZeroing(params, hasG) ==
    [gr EXCEPT !.pc = "threw", !.x = GradientX(numParameters(params)),
               !.g = IF hasG THEN [i \in 1..numParameters(params) |-> 0]
                     ELSE <<>>]

\* the call when the nonlinearity is not differentiable: the throw is the
\* first statement, before x, g, the data or params are touched
Thrown(params, hasG) == [gr EXCEPT !.pc = "threw"]

ParameterGradientEnter ==
    /\ gr.pc = "idle"
    /\ \E params \in GradientFlags, reg \in Regularizations, hasG \in BOOL,
          n \in NumDataValues :
       \E configured \in ConfiguredBatchSizes(n),
          nanColumn \in NaNColumns(reg, n) :
       \E huge \in HugeX(n) :
          IF ~Differentiable(mNonlinearity)
          THEN gr' = Thrown(params, hasG)
          ELSE gr' = [pc |-> "batches", numData |-> n,
                      configured |-> configured,
                      batchSize |-> BatchSize(configured, n),
                      cfg |-> params, reg |-> reg, hasG |-> hasG,
                      nanColumn |-> nanColumn, huge |-> huge,
                      x |-> GradientX(numParameters(params)),
                      todo |-> BatchStarts(n, BatchSize(configured, n)),
                      ascending |-> TRUE, finished |-> {},
                      logLik |-> Zero(n),
                      grad |-> ZeroedGradients(params, hasG, n),
                      value |-> <<>>, g |-> <<>>]
    /\ UNCHANGED <<stmVars, packVars, trainVars, workers, lock>>

\* a worker starts the iteration of a batch: everything up to logLikBatch
\* is local to the iteration
WorkerTake(w) ==
    /\ gr.pc = "batches"
    /\ workers[w].pc = "idle"
    /\ \E b \in gr.todo :
          /\ gr' = [gr EXCEPT !.todo = @ \ {b},
                               !.ascending =
                                   @ /\ \A c \in gr.todo : b <= c]
          /\ workers' = [workers EXCEPT ![w] =
                            [pc |-> "wait", b |-> b, k |-> 1, read |-> <<>>]]
    /\ UNCHANGED <<stmVars, packVars, trainVars, lock>>

\* (mutant: the critical sections are entered whoever holds the lock)
LockIgnored(l) == TRUE

\* the unnamed critical sections share one lock
LockFree(l) == l = 0

Accumulator(t) == IF t = 0 THEN gr.logLik ELSE gr.grad[t]

\* #pragma omp critical: the worker enters and loads the accumulator
WorkerEnter(w) ==
    /\ gr.pc = "batches"
    /\ workers[w].pc = "wait"
    /\ LockFree(lock)
    /\ lock' = w
    /\ workers' = [workers EXCEPT ![w].pc = "critical",
                      ![w].read = Accumulator(
                                    Targets(gr.cfg, gr.hasG)[workers[w].k])]
    /\ UNCHANGED <<stmVars, packVars, trainVars, gr>>

\* the worker stores the updated accumulator and leaves the critical
\* section; after the last accumulator its iteration ends
WorkerLeave(w) ==
    /\ gr.pc = "batches"
    /\ workers[w].pc = "critical"
    /\ LET targets == Targets(gr.cfg, gr.hasG)
           t == targets[workers[w].k]
           last == workers[w].k = Len(targets)
       IN  /\ gr' = [gr EXCEPT
                       !.logLik = IF t = 0
                                  THEN Plus(workers[w].read,
                                            BatchTerms(workers[w].b))
                                  ELSE @,
                       !.grad = IF t = 0 THEN @
                                ELSE [@ EXCEPT ![t] =
                                        Minus(workers[w].read,
                                              BatchTerms(workers[w].b))],
                       !.finished = IF last THEN @ \cup {workers[w].b} ELSE @]
           /\ workers' = [workers EXCEPT ![w] =
                            IF last THEN IdleWorker
                            ELSE [@ EXCEPT !.pc = "wait", !.k = @ + 1,
                                           !.read = <<>>]]
    /\ lock' = 0
    /\ UNCHANGED <<stmVars, packVars, trainVars>>

\* with no data the increment batchSize of the parallel loop is zero; the
\* iteration count of a parallel loop is computed from its increment, and
\* with a zero increment the behaviour is undefined: the loop is skipped
\* (ParameterGradientReturn follows) or the division by the increment
\* traps and the call never returns
ParallelLoopZeroIncrement ==
    /\ gr.pc = "batches"
    /\ gr.batchSize = 0
    /\ gr' = [gr EXCEPT !.pc = "aborted"]
    /\ UNCHANGED <<stmVars, packVars, trainVars, workers, lock>>

\* after the loop: normalisation, regularizer, NaN guard, return
ParameterGradientReturn ==
    /\ gr.pc = "batches"
    /\ gr.todo = {}
    /\ \A w \in DOMAIN workers : workers[w].pc = "idle"
    /\ LET views == Views(gr.x, gr.cfg)
       IN  gr' = [gr EXCEPT
                    !.pc = "done",
                    !.g = GradientEntries(gr.cfg, gr.reg, gr.hasG, views,
                                          gr.grad, gr.numData),
                    !.value = ObjectiveValue(gr.cfg, gr.reg, views, gr.logLik,
                                             gr.numData, gr.nanColumn,
                                             gr.huge)]
    /\ UNCHANGED <<stmVars, packVars, trainVars, workers, lock>>

\* STM::computeDataGradient: its first statement is an unconditional throw;
\* it is called here after a parameterGradient call has ended
ComputeDataGradient ==
    /\ gr.pc \in {"threw", "done"}
    /\ lastOp.op = "new"
    /\ \E rows \in {dimIn, dimIn + 1}, n \in {0, 1} :
          lastOp' = Checked("STM::computeDataGradient", Mat(rows, n, <<>>),
                            <<>>, TRUE)
    /\ UNCHANGED <<stmVars, xbuf, mcbm, trainVars, gradVars>>

InitGradient ==
    /\ \E shape \in {<<MaxDimNonlinear, MaxDimLinear, MaxK, MaxF>>,
                     <<MaxDimNonlinear, 0, 1, -1>>},
          nl \in {"logistic", "histogram"} :
          /\ STMConstruct(shape[1], shape[2], shape[3], shape[4], nl)
          /\ mcbm = MCBMConstruct(shape[1], shape[3], shape[4])
    /\ xbuf = NoBuf
    /\ lastOp = Call("new", DefaultParameters, AllMCBMFlags, <<>>, {}, 0)
    /\ tr = NoTrain
    /\ glm = NoGLM
    /\ resp = NoResp
    /\ gr = NoGradient
    /\ workers = [w \in 1..MaxThreads |-> IdleWorker]
    /\ lock = 0

NextGradient ==
    \/ ParameterGradientEnter
    \/ \E w \in 1..MaxThreads : WorkerTake(w)
    \/ \E w \in 1..MaxThreads : WorkerEnter(w)
    \/ \E w \in 1..MaxThreads : WorkerLeave(w)
    \/ ParallelLoopZeroIncrement
    \/ ParameterGradientReturn
    \/ ComputeDataGradient

SpecGradient == InitGradient /\ [][NextGradient]_vars

(***************************************************************************)
(* Claims about the batched evaluation.                                    *)
(***************************************************************************)
\* the accumulated terms when all columns form one batch
SingleBatch(n) == Terms(BatchColumns(0, Width(n, n, 0)), n)

\* the gradient accumulators after one batch of all columns
SingleBatchGradients(params, hasG, n) ==
    [j \in 1..5 |->
        IF \E k \in 2..Len(Targets(params, hasG)) :
              Targets(params, hasG)[k] = j
        THEN Minus(Zero(n), SingleBatch(n))
        ELSE ZeroedGradients(params, hasG, n)[j]]

\* C9: for fixed x, data and configuration, the objective and every
\* gradient entry returned by parameterGradient are, as exact sums, those
\* of the evaluation that takes all N columns as one batch, whatever the
\* configured batch size (below 10, between 10 and N, N, above N) and
\* whatever the order in which the batches were processed.
C9_BatchIndependent ==
    gr.pc = "done" =>
        LET views == Views(gr.x, gr.cfg)
        IN  /\ gr.value = ObjectiveValue(gr.cfg, gr.reg, views,
                                         SingleBatch(gr.numData), gr.numData,
                                         gr.nanColumn, gr.huge)
            /\ gr.g = GradientEntries(gr.cfg, gr.reg, gr.hasG, views,
                          SingleBatchGradients(gr.cfg, gr.hasG, gr.numData),
                          gr.numData)

\* a call with a configured batch size below 10 on more than two batches of
\* data has returned an objective and a gradient for all five blocks, and
\* its batches were not taken in ascending order
C9_Witness ==
    /\ gr.pc = "done" /\ gr.hasG /\ gr.cfg = DefaultParameters
    /\ gr.configured < MinBatch
    /\ gr.batchSize = MinBatch
    /\ Cardinality(gr.finished) = MaxBatches
    /\ ~gr.ascending
    /\ mDimInLinear > 0
    /\ Len(gr.g) = numParameters(DefaultParameters)

RECURSIVE SumOfBatches(_, _)
SumOfBatches(S, n) ==
    IF S = {} THEN Zero(n)
    ELSE LET b == CHOOSE c \in S : TRUE
         IN  Plus(BatchTerms(b), SumOfBatches(S \ {b}, n))

\* the batches whose iteration has updated the k-th accumulator
Passed(k) ==
    gr.finished
    \cup {workers[w].b : w \in {v \in DOMAIN workers :
                                    /\ workers[v].pc # "idle"
                                    /\ workers[v].k > k}}

\* C10: within one evaluation, in every interleaving of the workers, at
\* most one worker is inside a critical section, and the loss and every
\* gradient accumulator hold the contribution of exactly the batches whose
\* iteration has updated them, each once; at the return these are all the
\* batches.
C10_NoLostUpdate ==
    gr.pc \in {"batches", "done"} =>
        LET targets == Targets(gr.cfg, gr.hasG)
        IN  /\ Cardinality({w \in DOMAIN workers :
                               workers[w].pc = "critical"}) <= 1
            /\ gr.logLik = SumOfBatches(Passed(1), gr.numData)
            /\ \A k \in 2..Len(targets) :
                  gr.grad[targets[k]] =
                      Minus(Zero(gr.numData),
                            SumOfBatches(Passed(k), gr.numData))
            /\ gr.pc = "done" =>
                  gr.finished = BatchStarts(gr.numData, gr.batchSize)

\* one worker is inside the critical section of a gradient block while
\* another worker waits to update the same block
C10_Witness ==
    /\ gr.pc = "batches" /\ gr.hasG
    /\ \E w1, w2 \in DOMAIN workers :
          /\ w1 # w2
          /\ workers[w1].pc = "critical"
          /\ workers[w2].pc = "wait"
          /\ workers[w1].k = workers[w2].k
          /\ workers[w1].k > 1
          /\ workers[w1].b # workers[w2].b

(***************************************************************************)
(* Claims about the regularizer.                                           *)
(***************************************************************************)
\* the entries of x that hold block j (2 weights, 3 features, 4 predictors,
\* 5 linearPredictor) under the flags cfg, in the order of x
BlockOfX(x, cfg, j) ==
    LET from == FlaggedSize(FlagSeq(cfg), Blocks, j - 1)
    IN  [i \in 1..Size(Blocks[j]) |-> IntOf(x[from + i])]

\* the blocks that are penalized: flagged trainable, coefficient above zero
Penalized(cfg, reg) ==
    {j \in 2..5 : FlagSeq(cfg)[j] /\
        <<0, reg.regularizeWeights, reg.regularizeFeatures,
          reg.regularizePredictors, reg.regularizeLinearPredictor>>[j] > 0}

Lambda(reg, j) ==
    <<0, reg.regularizeWeights, reg.regularizeFeatures,
      reg.regularizePredictors, reg.regularizeLinearPredictor>>[j]

RECURSIVE PenaltySum(_, _, _, _)
PenaltySum(x, cfg, reg, js) ==
    IF js = {} THEN 0
    ELSE LET j == CHOOSE jj \in js : TRUE
             theta == BlockOfX(x, cfg, j)
             term(i) == IF reg.regularizer = "L2" THEN theta[i] * theta[i]
                        ELSE IF theta[i] < 0 THEN -theta[i] ELSE theta[i]
         IN  Lambda(reg, j) * SumTo([i \in 1..Len(theta) |-> term(i)],
                                    Len(theta))
             + PenaltySum(x, cfg, reg, js \ {j})

\* C11: the objective is the normalized unregularized loss plus
\* lambda * sum(theta^2) (L2) or lambda * sum(|theta|) (L1) for each of the
\* blocks weights, features, predictors, linearPredictor that is flagged
\* and has lambda > 0, and nothing for any other block; when a gradient is
\* requested every entry of exactly those blocks receives 2 * lambda * theta
\* (L2) or lambda * sign(theta) (L1), outside the division by the
\* normalization constant, and every other entry receives nothing.
C11_Regularizer ==
    (gr.pc = "done" /\ ~gr.value.max /\ ~gr.value.inf) =>
        /\ gr.value.sum = Minus(Zero(gr.numData), gr.logLik)
        /\ gr.value.cols = gr.numData
        /\ gr.value.penalty =
               PenaltySum(gr.x, gr.cfg, gr.reg, Penalized(gr.cfg, gr.reg))
        /\ gr.hasG =>
             \A j \in 1..5 :
                FlagSeq(gr.cfg)[j] =>
                  \A i \in 1..Size(Blocks[j]) :
                     LET p == FlaggedSize(FlagSeq(gr.cfg), Blocks, j - 1) + i
                         theta == IntOf(gr.x[p])
                     IN  /\ gr.g[p].sum = gr.grad[j]
                         /\ gr.g[p].cols = gr.numData
                         /\ gr.g[p].penalty =
                              IF j \notin Penalized(gr.cfg, gr.reg) THEN 0
                              ELSE IF gr.reg.regularizer = "L2"
                              THEN 2 * Lambda(gr.reg, j) * theta
                              ELSE IF theta > 0 THEN Lambda(gr.reg, j)
                              ELSE IF theta < 0 THEN -Lambda(gr.reg, j)
                              ELSE 0

\* an L1-regularized call with a gradient has returned: a block with a
\* positive coefficient is not flagged, and the flagged linear predictor
\* holds a negative entry that received minus its coefficient
C11_Witness ==
    /\ gr.pc = "done" /\ gr.hasG /\ ~gr.value.max /\ ~gr.value.inf
    /\ gr.reg.regularizer = "L1"
    /\ gr.reg.regularizeWeights > 0 /\ ~gr.cfg.trainWeights
    /\ gr.cfg.trainLinearPredictor /\ mDimInLinear > 0
    /\ gr.value.penalty > 0
    /\ \E p \in 1..Len(gr.g) : gr.g[p].block = 5 /\ gr.g[p].penalty < 0

(***************************************************************************)
(* Claims about non-finite objectives.                                     *)
(***************************************************************************)
\* the final loss of the call is NaN: 0 / 0 without data, or a NaN term
LossIsNaN == gr.numData = 0 \/ gr.nanColumn # 0

\* C12: parameterGradient never returns NaN: whenever the final loss is
\* NaN, including when N = 0 makes the normalization constant zero, the
\* call returns the largest finite double and no error is raised.
C12_AsStated ==
    (gr.pc \in {"done", "aborted"} /\ LossIsNaN) =>
        (gr.pc = "done" /\ gr.value.max)

\* the squared entries of a penalized block exceed the largest double
PenaltyIsInfinite ==
    /\ gr.huge
    /\ gr.reg.regularizer = "L2"
    /\ \E j \in Penalized(gr.cfg, gr.reg) :
          \E i \in 1..Size(Blocks[j]) : BlockOfX(gr.x, gr.cfg, j)[i] # 0

BiasValues == {-10000, 0, 10000}
OnlyBiases ==
    [trainBiases |-> TRUE, trainWeights |-> FALSE, trainFeatures |-> FALSE,
     trainPredictors |-> FALSE, trainLinearPredictor |-> FALSE]

\* setParameters with only the biases flagged, on a vector of large entries
SetLargeBiases ==
    /\ lastOp.op = "new"
    /\ ~resp.valid
    /\ \E v \in [1..mNumComponents -> BiasValues] :
          SetParameters([c \in 1..mNumComponents |-> Num(v[c])], OnlyBiases,
                        "setParameters")

\* response on one input column
ResponseCall ==
    /\ tr.pc = "idle"
    /\ ~resp.valid
    /\ \E xnl \in [1..dimInNonlinear -> InputValues],
          xl \in [1..dimInLinear -> InputValues] :
          resp' = [valid |-> TRUE, inputNonlinear |-> xnl, inputLinear |-> xl,
                   stm |-> response(xnl, xl), glm |-> Num(0)]
    /\ UNCHANGED <<stmVars, packVars, tr, glm, gradVars>>

InitResponse ==
    /\ \E dnl \in 0..MaxDimNonlinear, dl \in 0..MaxDimLinear, k \in 1..MaxK :
          /\ STMConstruct(dnl, dl, k, -1, "logistic")
          /\ mcbm = MCBMConstruct(dnl, k, -1)
    /\ xbuf = NoBuf
    /\ lastOp = Call("new", DefaultParameters, AllMCBMFlags, <<>>, {}, 0)
    /\ tr = NoTrain
    /\ glm = NoGLM
    /\ resp = NoResp
    /\ gr = NoGradient
    /\ workers = NoWorkers
    /\ lock = 0

NextResponse ==
    \/ SetLargeBiases
    \/ ResponseCall

SpecResponse == InitResponse /\ [][NextResponse]_vars

Finite(v) == v[1] \notin {"inf", "-inf"}

\* C14: on every path by which response pools component energies (the
\* general path, the zero-input path and the zero-nonlinear-input path with
\* K > 1) the pooled value, and with it the response, is finite for biases
\* of magnitude 1e4; and when K = 1 the pooled value is biases[0] exactly.
C14_AsStated ==
    resp.valid =>
        /\ Finite(resp.stm)
        /\ (mNumComponents = 1 /\ mDimInNonlinear = 0) =>
              resp.stm = AddInt(mBiases.data[1],
                                SumTo([d \in 1..mDimInLinear |->
                                         IntOf(mLinearPredictor.data[d])
                                         * resp.inputLinear[d]],
                                      mDimInLinear))

(***************************************************************************)
(* The block setters of the binned model (MCBM) and of the plain-linear    *)
(* model (GLM).  A call is recorded in lastOp with the block it was given, *)
(* the block stored before it and whether it threw (see Checked).          *)
(***************************************************************************)
\* a caller-supplied block of the given shape
CallerMat(r, c) == Mat(r, c, CallerX(r * c))

\* the plain-linear model is the one STM::train constructs:
\* GLM glm(dimInLinear(), mNonlinearity, mDistribution)
GLMdimIn == mDimInLinear
GLMConstruct ==
    [exists |-> TRUE, weights |-> RandomMat(12, GLMdimIn, 1),
     bias |-> Draw(13, 1), trainWeights |-> TRUE, trainBias |-> TRUE,
     usedVal |-> FALSE, converged |-> FALSE]

\* the shapes a caller tries: one less, exactly, one more
Near(n) == {m \in {n - 1, n, n + 1} : m >= 0}

\* the condition under which each setter throws
MCBMsetWeightsThrows(m) ==
    m.rows # mcbm.mNumComponents \/ m.cols # mcbm.mNumFeatures
MCBMsetPriorsThrows(m) == Size(m) # mcbm.mNumComponents
MCBMsetFeaturesThrows(m) ==
    m.rows # mcbm.mDimIn \/ m.cols # mcbm.mNumFeatures
MCBMsetPredictorsThrows(m) ==
    m.cols # mcbm.mDimIn \/ m.rows # mcbm.mNumComponents
MCBMsetInputBiasThrows(m) ==
    m.rows # mcbm.mDimIn \/ m.cols # mcbm.mNumComponents
MCBMsetOutputBiasThrows(m) == Size(m) # mcbm.mNumComponents
\* GLM::setWeights has no condition: mWeights = weights
GLMsetWeightsThrows(m) == FALSE

\* a setter may be called on the model as constructed, or again after a
\* setter that threw
SetterMayRun ==
    \/ lastOp.op = "new"
    \/ ("threw" \in DOMAIN lastOp /\ lastOp.threw)

MCBMSetter(op, field, m, throws) ==
    /\ SetterMayRun
    /\ lastOp' = Checked(op, m, mcbm[field], throws)
    /\ mcbm' = IF throws THEN mcbm ELSE [mcbm EXCEPT ![field] = m]
    /\ UNCHANGED <<stmVars, xbuf, trainVars, gradVars>>

MCBMsetWeights ==
    \E r \in Near(mcbm.mNumComponents), c \in Near(mcbm.mNumFeatures) :
       MCBMSetter("MCBM::setWeights", "mWeights", CallerMat(r, c),
                  MCBMsetWeightsThrows(CallerMat(r, c)))
MCBMsetPriors ==
    \E r \in Near(mcbm.mNumComponents) :
       MCBMSetter("MCBM::setPriors", "mPriors", CallerMat(r, 1),
                  MCBMsetPriorsThrows(CallerMat(r, 1)))
MCBMsetFeatures ==
    \E r \in Near(mcbm.mDimIn), c \in Near(mcbm.mNumFeatures) :
       MCBMSetter("MCBM::setFeatures", "mFeatures", CallerMat(r, c),
                  MCBMsetFeaturesThrows(CallerMat(r, c)))
MCBMsetPredictors ==
    \E r \in Near(mcbm.mNumComponents), c \in Near(mcbm.mDimIn) :
       MCBMSetter("MCBM::setPredictors", "mPredictors", CallerMat(r, c),
                  MCBMsetPredictorsThrows(CallerMat(r, c)))
MCBMsetInputBias ==
    \E r \in Near(mcbm.mDimIn), c \in Near(mcbm.mNumComponents) :
       MCBMSetter("MCBM::setInputBias", "mInputBias", CallerMat(r, c),
                  MCBMsetInputBiasThrows(CallerMat(r, c)))
MCBMsetOutputBias ==
    \E r \in Near(mcbm.mNumComponents) :
       MCBMSetter("MCBM::setOutputBias", "mOutputBias", CallerMat(r, 1),
                  MCBMsetOutputBiasThrows(CallerMat(r, 1)))

GLMsetWeights ==
    /\ SetterMayRun
    /\ glm.exists
    /\ \E r \in Near(GLMdimIn) :
         LET m == CallerMat(r, 1)
         IN  /\ lastOp' = Checked("GLM::setWeights", m, glm.weights,
                                  GLMsetWeightsThrows(m))
             /\ glm' = IF GLMsetWeightsThrows(m) THEN glm
                       ELSE [glm EXCEPT !.weights = m]
    /\ UNCHANGED <<stmVars, xbuf, mcbm, tr, resp, gradVars>>

\* GLM::setBias takes a scalar
GLMsetBias ==
    /\ SetterMayRun
    /\ glm.exists
    /\ \E b \in GLMValues :
         /\ lastOp' = Checked("GLM::setBias", Mat(1, 1, <<Num(b)>>),
                              Mat(1, 1, <<glm.bias>>), FALSE)
         /\ glm' = [glm EXCEPT !.bias = Num(b)]
    /\ UNCHANGED <<stmVars, xbuf, mcbm, tr, resp, gradVars>>

InitSetters ==
    /\ \E dnl \in 0..MaxDimNonlinear, dl \in 0..MaxDimLinear,
          k \in 1..MaxK, f \in (-1)..MaxF :
          /\ STMConstruct(dnl, dl, k, f, "logistic")
          /\ mcbm = MCBMConstruct(dnl, k, f)
    /\ glm = GLMConstruct
    /\ xbuf = NoBuf
    /\ lastOp = Call("new", DefaultParameters, AllMCBMFlags, <<>>, {}, 0)
    /\ tr = NoTrain
    /\ resp = NoResp
    /\ gr = NoGradient
    /\ workers = NoWorkers
    /\ lock = 0

NextSetters ==
    \/ MCBMsetWeights
    \/ MCBMsetPriors
    \/ MCBMsetFeatures
    \/ MCBMsetPredictors
    \/ MCBMsetInputBias
    \/ MCBMsetOutputBias
    \/ GLMsetWeights
    \/ GLMsetBias

SpecSetters == InitSetters /\ [][NextSetters]_vars

\* the shape each block setter is specified to accept, and the block stored
BlockSetters ==
    {"MCBM::setWeights", "MCBM::setPriors", "MCBM::setFeatures",
     "MCBM::setPredictors", "MCBM::setInputBias", "MCBM::setOutputBias",
     "GLM::setWeights"}
ShapeOf(op) ==
    CASE op = "MCBM::setWeights" -> <<mcbm.mNumComponents, mcbm.mNumFeatures>>
      [] op = "MCBM::setPriors" -> <<mcbm.mNumComponents, 1>>
      [] op = "MCBM::setFeatures" -> <<mcbm.mDimIn, mcbm.mNumFeatures>>
      [] op = "MCBM::setPredictors" -> <<mcbm.mNumComponents, mcbm.mDimIn>>
      [] op = "MCBM::setInputBias" -> <<mcbm.mDimIn, mcbm.mNumComponents>>
      [] op = "MCBM::setOutputBias" -> <<mcbm.mNumComponents, 1>>
      [] op = "GLM::setWeights" -> <<GLMdimIn, 1>>
Stored(op) ==
    CASE op = "MCBM::setWeights" -> mcbm.mWeights
      [] op = "MCBM::setPriors" -> mcbm.mPriors
      [] op = "MCBM::setFeatures" -> mcbm.mFeatures
      [] op = "MCBM::setPredictors" -> mcbm.mPredictors
      [] op = "MCBM::setInputBias" -> mcbm.mInputBias
      [] op = "MCBM::setOutputBias" -> mcbm.mOutputBias
      [] op = "GLM::setWeights" -> glm.weights

\* C15: every block setter (the binned model's setPriors, setWeights,
\* setFeatures, setPredictors, setInputBias, setOutputBias and the
\* plain-linear model's setWeights) fails when the block it is given does
\* not have the shape of the model's dimensions, and the stored block is
\* then the one stored before; when the shape matches, the stored block
\* equals the argument.
C15_AsStated ==
    lastOp.op \in BlockSetters =>
        IF <<lastOp.arg.rows, lastOp.arg.cols>> # ShapeOf(lastOp.op)
        THEN lastOp.threw /\ Stored(lastOp.op) = lastOp.before
        ELSE ~lastOp.threw /\ Stored(lastOp.op) = lastOp.arg

(***************************************************************************)
(* Construction.  Before a constructor has returned there is no object:    *)
(* every member is Absent.  A constructor that throws leaves it so.        *)
(***************************************************************************)
Absent == "absent"
NoModel ==
    /\ mNonlinearity = Absent
    /\ mDimInNonlinear = Absent /\ mDimInLinear = Absent
    /\ mNumComponents = Absent /\ mNumFeatures = Absent
    /\ mBiases = Absent /\ mWeights = Absent /\ mFeatures = Absent
    /\ mPredictors = Absent /\ mLinearPredictor = Absent

ConstructorArgs(dnl, dl, k, f) ==
    [dimInNonlinear |-> dnl, dimInLinear |-> dl, numComponents |-> k,
     numFeatures |-> f]

\* if(mDimInNonlinear < 0) throw ...; if(mNumComponents < 1) throw ...;
SingleInputConstructorThrows(dnl, k) == dnl < 0 \/ k < 1

\* (mutant: the two-input constructor with the single-input test)
ConstructorThrowsNonlinearOnly(dnl, dl, k) ==
    SingleInputConstructorThrows(dnl, k)

\* if(mDimInNonlinear < 0 || mDimInLinear < 0) throw ...;
\* if(mNumComponents < 1) throw ...;
ConstructorThrows(dnl, dl, k) == dnl < 0 \/ dl < 0 \/ k < 1

\* the member initialisers and the body after the tests; linear is the
\* initial linearPredictor
Members(dnl, dl, k, f, nl, linear) ==
    /\ mDimInNonlinear' = dnl
    /\ mDimInLinear' = dl
    /\ mNumComponents' = k
    /\ mNumFeatures' = (IF f < 0 THEN dnl ELSE f)
    /\ mNonlinearity' = nl
    /\ mBiases' = RandomMat(1, k, 1)
    /\ mWeights' = RandomMat(2, k, IF f < 0 THEN dnl ELSE f)
    /\ mFeatures' = RandomMat(3, dnl, IF f < 0 THEN dnl ELSE f)
    /\ mPredictors' = RandomMat(4, k, dnl)
    /\ mLinearPredictor' = linear

\* a constructor runs where no object exists yet
MayConstruct == NoModel

\* STM(dimInNonlinear, dimInLinear, numComponents, numFeatures, ...)
NewSTM ==
    /\ MayConstruct
    /\ \E dnl \in (-1)..MaxDimNonlinear, dl \in (-1)..MaxDimLinear,
          k \in 0..MaxK, f \in (-1)..MaxF :
         IF ConstructorThrows(dnl, dl, k)
         THEN /\ lastOp' = Checked("STM::STM(dimInNonlinear, dimInLinear)",
                                   ConstructorArgs(dnl, dl, k, f), <<>>, TRUE)
              /\ UNCHANGED stmVars
         ELSE /\ lastOp' = Checked("STM::STM(dimInNonlinear, dimInLinear)",
                                   ConstructorArgs(dnl, dl, k, f), <<>>, FALSE)
              /\ Members(dnl, dl, k, f, "logistic", RandomMat(5, dl, 1))
    /\ UNCHANGED <<xbuf, mcbm, trainVars, gradVars>>

\* STM(dimIn, numComponents, numFeatures, ...): mDimInLinear(0),
\* mLinearPredictor = VectorXd::Zero(mDimInLinear)
NewSTMSingleInput ==
    /\ MayConstruct
    /\ \E dnl \in (-1)..MaxDimNonlinear, k \in 0..MaxK, f \in (-1)..MaxF :
         IF SingleInputConstructorThrows(dnl, k)
         THEN /\ lastOp' = Checked("STM::STM(dimIn)",
                                   ConstructorArgs(dnl, 0, k, f), <<>>, TRUE)
              /\ UNCHANGED stmVars
         ELSE /\ lastOp' = Checked("STM::STM(dimIn)",
                                   ConstructorArgs(dnl, 0, k, f), <<>>, FALSE)
              /\ Members(dnl, 0, k, f, "logistic", Mat(0, 1, <<>>))
    /\ UNCHANGED <<xbuf, mcbm, trainVars, gradVars>>

InitConstruct ==
    /\ NoModel
    /\ mcbm = MCBMConstruct(0, 1, -1)
    /\ xbuf = NoBuf
    /\ lastOp = Call("none", DefaultParameters, AllMCBMFlags, <<>>, {}, 0)
    /\ tr = NoTrain
    /\ glm = NoGLM
    /\ resp = NoResp
    /\ gr = NoGradient
    /\ workers = NoWorkers
    /\ lock = 0

NextConstruct ==
    \/ NewSTM
    \/ NewSTMSingleInput

SpecConstruct == InitConstruct /\ [][NextConstruct]_vars

Constructors == {"STM::STM(dimInNonlinear, dimInLinear)", "STM::STM(dimIn)"}

\* C16: constructing a mixture model fails when D_nl < 0, when D_l < 0 or
\* when the number of components is below 1, and then no model exists;
\* otherwise construction succeeds with the dimensions asked for, a negative
\* requested feature count is replaced by D_nl, and the single-input
\* constructor yields D_l = 0 with an empty linearPredictor.
C16_Construction ==
    lastOp.op \in Constructors =>
        LET a == lastOp.arg
        IN  IF a.dimInNonlinear < 0 \/ a.dimInLinear < 0 \/ a.numComponents < 1
            THEN lastOp.threw /\ NoModel
            ELSE /\ ~lastOp.threw
                 /\ mDimInNonlinear = a.dimInNonlinear
                 /\ mDimInLinear = a.dimInLinear
                 /\ mNumComponents = a.numComponents
                 /\ mNumFeatures = (IF a.numFeatures < 0 THEN a.dimInNonlinear
                                    ELSE a.numFeatures)
                 /\ Size(mLinearPredictor) = a.dimInLinear
                 /\ lastOp.op = "STM::STM(dimIn)" =>
                       /\ mDimInLinear = 0
                       /\ mLinearPredictor.data = <<>>

\* the two-input constructor was given a negative D_l and nothing else wrong
C16_Witness ==
    /\ lastOp.op = "STM::STM(dimInNonlinear, dimInLinear)"
    /\ lastOp.threw
    /\ lastOp.arg.dimInLinear < 0
    /\ lastOp.arg.dimInNonlinear >= 0
    /\ lastOp.arg.numComponents >= 1
    /\ NoModel

\* C17: a train call given a configuration that is not the mixture model's
\* own configuration type fails at the entry point with no parameter block
\* modified, on every training path (zero-input, linear-only and general).
C17_AsStated ==
    (tr.pc # "idle" /\ ~tr.cfgIsSTM) => (tr.pc = "threw" /\ AsConstructed)

\* C18: parameterGradient on a model whose nonlinearity is not
\* differentiable fails before reading x or the data, leaving the gradient
\* buffer g and every model block unchanged; computeDataGradient fails for
\* every input without returning a value.
C18_Unsupported ==
    /\ (gr.pc # "idle" /\ ~Differentiable(mNonlinearity)) =>
          /\ gr.pc = "threw"
          /\ gr.x = <<>> /\ gr.logLik = <<>> /\ gr.grad = <<>>
          /\ gr.g = <<>> /\ gr.value = <<>>
          /\ AsConstructed
    /\ lastOp.op = "STM::computeDataGradient" =>
          lastOp.threw /\ AsConstructed

\* both calls were made on a model with a non-differentiable nonlinearity
C18_Witness ==
    /\ ~Differentiable(mNonlinearity)
    /\ gr.pc = "threw"
    /\ lastOp.op = "STM::computeDataGradient"
    /\ lastOp.threw

\* C19: train on a model with zero total input dimensionality whose
\* nonlinearity is not invertible fails and leaves all five parameter blocks
\* exactly as they were before the call.
C19_FailedFitKeepsBlocks ==
    (tr.pc # "idle" /\ mDimInNonlinear + mDimInLinear = 0
        /\ ~Invertible(mNonlinearity)) =>
        /\ tr.pc = "threw"
        /\ AsConstructed
        /\ ~resp.valid

\* the closed-form fit threw on a model with two components
C19_Witness ==
    /\ tr.pc = "threw"
    /\ tr.paths = {"closed"}
    /\ mNonlinearity = "histogram"
    /\ mNumComponents = 2
    /\ mBiases = RandomMat(1, 2, 1)

(***************************************************************************)
(* The shape tests of STM::logLikelihood and STM::response.  A matrix      *)
(* argument is given by its shape only.  An evaluation ends in "threw" (an *)
(* exception of the mixture model), in "returned" with the number of       *)
(* columns of the result, or in "unchecked": operands of unequal length    *)
(* have reached a coefficient-wise expression or the output distribution,  *)
(* whose outcome is one of UncheckedOutcomes.                              *)
(***************************************************************************)
dimOut == 1
Shape(r, c) == [rows |-> r, cols |-> c]
Threw == [status |-> "threw", cols |-> 0]
Returned(n) == [status |-> "returned", cols |-> n]
Unchecked == [status |-> "unchecked", cols |-> 0]
UncheckedOutcomes == {"returned", "aborted", "threw"}

RECURSIVE responseShape(_), responseSplitShape(_, _)
\* STM::response(input)
responseShape(input) ==
    IF input.rows # dimIn THEN Threw
    ELSE IF dimInLinear # 0
    THEN responseSplitShape(Shape(dimInNonlinear, input.cols),
                            Shape(dimInLinear, input.cols))
    ELSE Returned(input.cols)

\* STM::response(inputNonlinear, inputLinear)
responseSplitShape(inputNonlinear, inputLinear) ==
    IF dimInLinear = 0 THEN responseShape(inputNonlinear)
    ELSE IF inputNonlinear.rows # dimInNonlinear
            \/ inputLinear.rows # dimInLinear
    THEN Threw
    ELSE IF dimInNonlinear = 0 THEN Returned(inputLinear.cols)
    ELSE IF inputNonlinear.cols # inputLinear.cols THEN Unchecked
    ELSE Returned(inputLinear.cols)

\* mDistribution->logLikelihood(output, mNonlinearity(response))
DistributionShape(output, r) ==
    IF r.status # "returned" THEN r
    ELSE IF output.cols # r.cols THEN Unchecked
    ELSE Returned(r.cols)

RECURSIVE logLikelihoodShape(_, _), logLikelihoodSplitShape(_, _, _)
\* STM::logLikelihood(input, output)
logLikelihoodShape(input, output) ==
    IF input.rows # dimIn THEN Threw
    ELSE IF dimInLinear # 0
    THEN logLikelihoodSplitShape(Shape(dimInNonlinear, input.cols),
                                 Shape(dimInLinear, input.cols), output)
    ELSE IF output.rows # dimOut THEN Threw
    ELSE IF input.cols # output.cols THEN Threw
    ELSE DistributionShape(output, responseShape(input))

\* STM::logLikelihood(inputNonlinear, inputLinear, output)
logLikelihoodSplitShape(inputNonlinear, inputLinear, output) ==
    IF dimInLinear = 0 THEN logLikelihoodShape(inputNonlinear, output)
    ELSE IF output.rows # dimOut THEN Threw
    ELSE IF inputNonlinear.rows # dimInNonlinear
            \/ inputLinear.rows # dimInLinear
    THEN Threw
    ELSE DistributionShape(output,
                           responseSplitShape(inputNonlinear, inputLinear))

Outcomes(r) ==
    IF r.status = "unchecked" THEN UncheckedOutcomes ELSE {r.status}

\* a compute call: its name, the shapes it was given and how it ended
Compute(op, arg, outcome) ==
    [op |-> op, cfg |-> DefaultParameters, mcfg |-> AllMCBMFlags, x |-> <<>>,
     read |-> {}, n |-> 0, arg |-> arg, outcome |-> outcome]

ColumnCounts == {1, 2}

LogLikelihoodCall ==
    /\ \E ir \in Near(dimIn), ic \in ColumnCounts,
          or \in Near(dimOut), oc \in ColumnCounts :
       \E outcome \in Outcomes(logLikelihoodShape(Shape(ir, ic),
                                                  Shape(or, oc))) :
          lastOp' = Compute("STM::logLikelihood(input, output)",
                            [input |-> Shape(ir, ic), output |-> Shape(or, oc)],
                            outcome)
    /\ UNCHANGED <<stmVars, xbuf, mcbm, trainVars, gradVars>>

LogLikelihoodSplitCall ==
    /\ \E nr \in Near(dimInNonlinear), lr \in Near(dimInLinear),
          nc \in ColumnCounts, lc \in ColumnCounts,
          or \in Near(dimOut), oc \in ColumnCounts :
       \E outcome \in Outcomes(logLikelihoodSplitShape(
                                 Shape(nr, nc), Shape(lr, lc), Shape(or, oc))) :
          lastOp' = Compute(
              "STM::logLikelihood(inputNonlinear, inputLinear, output)",
              [inputNonlinear |-> Shape(nr, nc), inputLinear |-> Shape(lr, lc),
               output |-> Shape(or, oc)],
              outcome)
    /\ UNCHANGED <<stmVars, xbuf, mcbm, trainVars, gradVars>>

ResponseShapeCall ==
    /\ \E ir \in Near(dimIn), ic \in ColumnCounts :
       \E outcome \in Outcomes(responseShape(Shape(ir, ic))) :
          lastOp' = Compute("STM::response(input)",
                            [input |-> Shape(ir, ic)], outcome)
    /\ UNCHANGED <<stmVars, xbuf, mcbm, trainVars, gradVars>>

ResponseSplitShapeCall ==
    /\ \E nr \in Near(dimInNonlinear), lr \in Near(dimInLinear),
          nc \in ColumnCounts, lc \in ColumnCounts :
       \E outcome \in Outcomes(responseSplitShape(Shape(nr, nc),
                                                  Shape(lr, lc))) :
          lastOp' = Compute("STM::response(inputNonlinear, inputLinear)",
                            [inputNonlinear |-> Shape(nr, nc),
                             inputLinear |-> Shape(lr, lc)],
                            outcome)
    /\ UNCHANGED <<stmVars, xbuf, mcbm, trainVars, gradVars>>

NextShapes ==
    \/ LogLikelihoodCall
    \/ LogLikelihoodSplitCall
    \/ ResponseShapeCall
    \/ ResponseSplitShapeCall

SpecShapes == InitResponse /\ [][NextShapes]_vars

\* the mismatches the calls are specified to reject
WrongRows(a) ==
    IF "input" \in DOMAIN a THEN a.input.rows # dimIn
    ELSE a.inputNonlinear.rows # dimInNonlinear
         \/ a.inputLinear.rows # dimInLinear
WrongOutput(a) ==
    "output" \in DOMAIN a /\
        \/ a.output.rows # dimOut
        \/ IF "input" \in DOMAIN a THEN a.input.cols # a.output.cols
           ELSE \/ a.inputNonlinear.cols # a.output.cols
                \/ (dimInLinear > 0 /\ a.inputLinear.cols # a.output.cols)
ComputeCalls ==
    {"STM::logLikelihood(input, output)",
     "STM::logLikelihood(inputNonlinear, inputLinear, output)",
     "STM::response(input)", "STM::response(inputNonlinear, inputLinear)"}

\* C20: logLikelihood (the stacked-input and the split-input overload) and
\* response fail at the call site whenever the input row count differs from
\* the model's input dimensionality, the output row count differs from the
\* output dimensionality, or the number of input columns differs from the
\* number of output columns, for every model, whether D_l = 0 or D_l > 0.
C20_AsStated ==
    (lastOp.op \in ComputeCalls
        /\ (WrongRows(lastOp.arg) \/ WrongOutput(lastOp.arg))) =>
        lastOp.outcome = "threw"

(***************************************************************************)
(* STM::initialize, and the operations of a model's life taken together.   *)
(* The values initialize computes (means, inverse covariances,             *)
(* eigenvectors, random factors) are arbitrary numbers here: entry i of    *)
(* block b is Fit(b, i).  What is kept exactly is which entries of which   *)
(* block are assigned, and with what shape.  initialize is called on the   *)
(* model as constructed.                                                   *)
(***************************************************************************)
Fit(b, i) == Num(300 + 10 * b + i)
FitMat(b, r, c) == Mat(r, c, [i \in 1..(r * c) |-> Fit(b, i)])

\* int numSpikes = output.sum();  spikes = output.array() > 0.5
NumSpikes(output) == SumTo(output, Len(output))
SpikeCount(output) == Cardinality({i \in 1..Len(output) : output[i] >= 1})

\* the quadratic fit is made when there are more spikes than nonlinear
\* dimensions
QuadraticFit(output) ==
    dimInNonlinear > 0 /\ NumSpikes(output) > dimInNonlinear

\* inputs1 has numSpikes columns and inputs0 the rest; the separation loop
\* writes one column per example, past the end of one of the two when the
\* outputs are not all 0 or 1
SeparationOverruns(output) ==
    QuadraticFit(output) /\ SpikeCount(output) # NumSpikes(output)

\* mFeatures.col(i) = eigVecs.col(j) for i < mNumFeatures, i < indices.size()
FeaturesFitted ==
    LET n == MinOf(mNumFeatures, dimInNonlinear)
    IN  Mat(mFeatures.rows, mFeatures.cols,
            [i \in 1..Size(mFeatures) |->
                IF i <= n * mFeatures.rows THEN Fit(3, i)
                ELSE mFeatures.data[i]])

InitializeOutputs == {0, 1, 2}

\* (mutant: the linear predictor computed from all rows of the input)
LinearPredictorFromAllRows == FitMat(5, dimIn, 1)

\* mLinearPredictor = input.bottomRows(dimInLinear()) * output.transpose()
\*                    / numSpikes
LinearPredictorFitted == FitMat(5, dimInLinear, 1)

Initialize ==
    /\ lastOp.op = "new"
    /\ tr.pc = "idle"
    /\ \E n \in 0..MaxN : \E output \in [1..n -> InitializeOutputs] :
       \E inRows \in {dimIn, dimIn + 1}, inCols \in {n, n + 1},
          outRows \in {dimOut, dimOut + 1} :
         LET arg == <<>>
         IN  IF inRows # dimIn \/ outRows # dimOut \/ inCols # n
             THEN /\ lastOp' = Compute("STM::initialize", arg, "threw")
                  /\ UNCHANGED <<mBiases, mWeights, mFeatures, mPredictors,
                                 mLinearPredictor>>
             ELSE \E outcome \in IF SeparationOverruns(output)
                                 THEN {"returned", "aborted"}
                                 ELSE {"returned"} :
                  /\ lastOp' = Compute("STM::initialize", arg, outcome)
                  /\ IF outcome = "returned" /\ QuadraticFit(output)
                     THEN /\ mWeights' = FitMat(2, mWeights.rows, mWeights.cols)
                          /\ mFeatures' = FeaturesFitted
                          /\ mPredictors' =
                                FitMat(4, mPredictors.rows, mPredictors.cols)
                          /\ mBiases' = FitMat(1, mBiases.rows, mBiases.cols)
                     ELSE UNCHANGED <<mBiases, mWeights, mFeatures,
                                      mPredictors>>
                  /\ IF outcome = "returned" /\ dimInLinear > 0
                     THEN mLinearPredictor' = LinearPredictorFitted
                     ELSE UNCHANGED mLinearPredictor
    /\ UNCHANGED <<mDimInNonlinear, mDimInLinear, mNumComponents, mNumFeatures,
                   mNonlinearity, xbuf, mcbm, trainVars, gradVars>>

\* the process is gone once a call has aborted
Alive == ~("outcome" \in DOMAIN lastOp /\ lastOp.outcome = "aborted")

\* setParameters with any flags on a vector of the caller's, before or
\* after a train call
SetAnyParameters ==
    /\ Alive
    /\ tr.pc \in {"idle", "returned", "threw"}
    /\ lastOp.op \in {"new", "STM::initialize"}
    /\ \E params \in Flags :
         SetParameters(CallerX(numParameters(params)), params, "setParameters")

InitLifecycle ==
    /\ \E shape \in {<<MaxDimNonlinear, MaxDimLinear, MaxK, MaxF>>,
                     <<MaxDimNonlinear, 0, 1, -1>>,
                     <<0, MaxDimLinear, MaxK, 0>>,
                     <<0, 0, MaxK, -1>>} :
          /\ STMConstruct(shape[1], shape[2], shape[3], shape[4], "logistic")
          /\ mcbm = MCBMConstruct(shape[1], shape[3], shape[4])
    /\ xbuf = NoBuf
    /\ lastOp = Call("new", DefaultParameters, AllMCBMFlags, <<>>, {}, 0)
    /\ tr = NoTrain
    /\ glm = NoGLM
    /\ resp = NoResp
    /\ gr = NoGradient
    /\ workers = NoWorkers
    /\ lock = 0

NextLifecycle ==
    \/ Alive /\ Initialize
    \/ SetAnyParameters
    \/ Alive /\ TrainZeroInput
    \/ Alive /\ TrainLinearOnly
    \/ Alive /\ TrainLinearOnlyFinish
    \/ Alive /\ TrainGeneral
    \/ Alive /\ OptimizerIterate
    \/ Alive /\ OptimizerFinish

SpecLifecycle == InitLifecycle /\ [][NextLifecycle]_vars

HasShape(m, r, c) == m.rows = r /\ m.cols = c /\ Len(m.data) = r * c

\* C21: after any sequence of successful operations on a mixture model
\* (construction, setParameters with any flags, initialize, train on any of
\* its three paths) biases has K entries, weights is K x F, features is
\* D_nl x F, predictors is K x D_nl and linearPredictor has D_l entries,
\* with K >= 1 and D_nl, D_l >= 0.
C21_Shapes ==
    Alive =>
        /\ mNumComponents >= 1 /\ mDimInNonlinear >= 0 /\ mDimInLinear >= 0
        /\ HasShape(mBiases, mNumComponents, 1)
        /\ HasShape(mWeights, mNumComponents, mNumFeatures)
        /\ HasShape(mFeatures, mDimInNonlinear, mNumFeatures)
        /\ HasShape(mPredictors, mNumComponents, mDimInNonlinear)
        /\ HasShape(mLinearPredictor, mDimInLinear, 1)

\* a model that was initialized with the quadratic fit, then trained by the
\* general optimizer and then set, both with the biases not flagged
C21_Witness ==
    /\ lastOp.op = "setParameters"
    /\ ~lastOp.cfg.trainBiases /\ lastOp.cfg.trainWeights
    /\ tr.pc = "returned"
    /\ tr.paths = {"general"}
    /\ mBiases.data[1] = Fit(1, 1)
    /\ mDimInLinear > 0 /\ mNumFeatures > 0

\* the blocks whose flag is off in cfg hold what the constructor gave them
UnflaggedAsConstructed(cfg) ==
    /\ ~cfg.trainBiases => mBiases = RandomMat(1, mBiases.rows, mBiases.cols)
    /\ ~cfg.trainWeights =>
          mWeights = RandomMat(2, mWeights.rows, mWeights.cols)
    /\ ~cfg.trainFeatures =>
          mFeatures = RandomMat(3, mFeatures.rows, mFeatures.cols)
    /\ ~cfg.trainPredictors =>
          mPredictors = RandomMat(4, mPredictors.rows, mPredictors.cols)
    /\ ~cfg.trainLinearPredictor =>
          mLinearPredictor =
              RandomMat(5, mLinearPredictor.rows, mLinearPredictor.cols)

\* C22: a train call leaves every parameter block whose train flag is off
\* in the configuration with exactly the contents it had before the call,
\* on each of the three training paths; in particular with trainBiases off
\* the biases are unchanged and with trainLinearPredictor off the
\* linearPredictor is unchanged.
C22_AsStated ==
    (tr.pc \in {"returned", "threw"} /\ tr.cfgIsSTM) =>
        UnflaggedAsConstructed(tr.cfg)

\* the batches of a call that has left its loop, each as its set of columns
BatchesRun ==
    {BatchColumns(b, Width(gr.batchSize, gr.numData, b)) : b \in gr.finished}
Contiguous(S) == \A i \in S, j \in S : \A k \in i..j : k \in S

\* C23: in parameterGradient, for every N >= 0 and every configured batch
\* size (zero and negative values included), the batch size used is
\* min(max(configured, 10), N), the batches are contiguous column ranges in
\* which every one of the N examples lies exactly once, every batch has
\* between 1 and batch-size examples, and the batch loop terminates (it
\* runs zero times when N = 0).
C23_AsStated ==
    /\ gr.pc # "aborted"
    /\ gr.pc \in {"batches", "done"} =>
          gr.batchSize = MinOf(MaxOf(gr.configured, 10), gr.numData)
    /\ gr.pc = "done" =>
          /\ \A i \in 1..gr.numData :
                Cardinality({B \in BatchesRun : i \in B}) = 1
          /\ \A B \in BatchesRun :
                /\ Contiguous(B)
                /\ B \subseteq 1..gr.numData
                /\ Cardinality(B) >= 1 /\ Cardinality(B) <= gr.batchSize
          /\ Cardinality(BatchesRun) = Cardinality(gr.finished)
          /\ gr.numData = 0 => gr.finished = {}

(***************************************************************************)
(* The writes of STM::parameterGradient to the gradient buffer g.  Every   *)
(* entry of g is followed through the call: "prior" is what the caller     *)
(* left there, "zero" the result of setZero, "gradient" a value computed   *)
(* from zero by the call, "tainted" a value computed from prior content;   *)
(* block is the view through which the entry was last written.             *)
(***************************************************************************)
PriorG(n) == [p \in 1..n |-> [state |-> "prior", block |-> 0]]

\* the sizes of the five views, from the model's dimensions
ViewSizes ==
    <<mNumComponents, mNumComponents * mNumFeatures,
      dimInNonlinear * mNumFeatures, mNumComponents * dimInNonlinear,
      dimInLinear>>

\* the value of offset when the gradient view of block j is made: offset
\* advances past the flagged blocks only
RECURSIVE GradientOffset(_, _)
GradientOffset(params, j) ==
    IF j = 0 THEN 0
    ELSE GradientOffset(params, j - 1)
         + (IF FlagSeq(params)[j] THEN ViewSizes[j] ELSE 0)

\* (mutant: the gradient views laid out as if every block were flagged)
GradientStartDense(params, j) ==
    GradientOffset(DefaultParameters, j - 1)

\* XGrad(g + offset, ...)
GradientStart(params, j) == GradientOffset(params, j - 1)

SetZero(j, params) ==
    [kind |-> "set", block |-> j, start |-> GradientStart(params, j),
     size |-> ViewSizes[j]]
Update(j, params) ==
    [kind |-> "update", block |-> j, start |-> GradientStart(params, j),
     size |-> ViewSizes[j]]
\* for(int i = 0; i < offset; ++i) g[i] /= normConst;
Normalize(params) ==
    [kind |-> "update", block |-> 0, start |-> 0,
     size |-> GradientOffset(params, 5)]

\* the writes of one call in program order: zeroing, one round of updates
\* per batch, normalisation, regularizer
GradientWrites(params, reg, batches) ==
    LET flagged == SelectSeq(<<1, 2, 3, 4, 5>>, LAMBDA j : FlagSeq(params)[j])
        updated == SelectSeq(flagged, LAMBDA j : j = 5 => dimInLinear > 0)
        penalized == SelectSeq(<<3, 4, 2, 5>>,
                               LAMBDA j : Regularized(params, reg, j))
        round == [i \in 1..Len(updated) |-> Update(updated[i], params)]
    IN  [i \in 1..Len(flagged) |-> SetZero(flagged[i], params)]
        \o (IF batches >= 1 THEN round ELSE <<>>)
        \o (IF batches >= 2 THEN round ELSE <<>>)
        \o <<Normalize(params)>>
        \o [i \in 1..Len(penalized) |-> Update(penalized[i], params)]

WriteEntry(e, w) ==
    [state |-> IF w.kind = "set" THEN "zero"
               ELSE IF e.state \in {"prior", "tainted"} THEN "tainted"
               ELSE "gradient",
     block |-> IF w.block = 0 THEN e.block ELSE w.block]

RECURSIVE WriteAll(_, _, _)
WriteAll(g, ws, k) ==
    IF k > Len(ws) THEN g
    ELSE WriteAll([p \in DOMAIN g |->
                     IF p > ws[k].start /\ p <= ws[k].start + ws[k].size
                     THEN WriteEntry(g[p], ws[k]) ELSE g[p]],
                  ws, k + 1)

\* a call with a buffer one entry longer than numParameters(params)
ParameterGradientBuffer ==
    /\ lastOp.op = "new"
    /\ Differentiable(mNonlinearity)
    /\ \E params \in Flags, reg \in Regularizations, batches \in 1..2 :
          /\ xbuf' = [valid |-> TRUE, cfg |-> params,
                      x |-> WriteAll(PriorG(numParameters(params) + 1),
                                     GradientWrites(params, reg, batches), 1)]
          /\ lastOp' = Call("parameterGradient", params, AllMCBMFlags, <<>>,
                            {}, batches)
    /\ UNCHANGED <<stmVars, mcbm, trainVars, gradVars>>

NextBuffer == ParameterGradientBuffer

SpecBuffer == Init /\ [][NextBuffer]_vars

\* the block in whose span of x (the layout of parameters and
\* setParameters) index p lies
SpanOwner(cfg, p) ==
    {j \in 1..5 : /\ FlagSeq(cfg)[j]
                  /\ p > FlaggedSize(FlagSeq(cfg), Blocks, j - 1)
                  /\ p <= FlaggedSize(FlagSeq(cfg), Blocks, j)}

\* C24: when a gradient buffer g is supplied, parameterGradient writes only
\* the entries g[0 .. numParameters(config)-1]; each flagged block's
\* gradient occupies the same offset and length in g as that block's span
\* in x, for every combination of train flags; and the final content of
\* those entries does not depend on what g held before the call.
C24_GradientBuffer ==
    lastOp.op = "parameterGradient" =>
        \A p \in 1..Len(xbuf.x) :
            IF p <= numParameters(xbuf.cfg)
            THEN /\ xbuf.x[p].state \in {"zero", "gradient"}
                 /\ SpanOwner(xbuf.cfg, p) = {xbuf.x[p].block}
            ELSE xbuf.x[p] = [state |-> "prior", block |-> 0]

\* a call with the biases and the features not flagged, on a model in
\* which all five blocks have entries
C24_Witness ==
    /\ lastOp.op = "parameterGradient"
    /\ ~xbuf.cfg.trainBiases /\ xbuf.cfg.trainWeights
    /\ ~xbuf.cfg.trainFeatures /\ xbuf.cfg.trainPredictors
    /\ xbuf.cfg.trainLinearPredictor
    /\ mDimInNonlinear > 0 /\ mDimInLinear > 0 /\ mNumFeatures > 0
    /\ Len(xbuf.x) > 1

(***************************************************************************)
(* STM::nonlinearResponses and STM::linearResponse, on one column of a     *)
(* stacked input (the nonlinear rows on top of the linear rows).           *)
(***************************************************************************)
topRows(input, n) == [d \in 1..n |-> input[d]]
bottomRows(input, n) == [d \in 1..n |-> input[Len(input) - n + d]]

\* one column of the K x N matrix of component energies
nonlinearResponses(input) ==
    IF dimInNonlinear = 0 THEN mBiases.data
    ELSE JointEnergy(topRows(input, dimInNonlinear))

\* one entry of the 1 x N row
linearResponse(input) ==
    IF dimInLinear = 0 THEN 0
    ELSE Dot(mLinearPredictor, bottomRows(input, dimInLinear))

\* response(input): the rows are split when the model has linear inputs
responseStacked(input) ==
    IF dimInLinear > 0
    THEN response(topRows(input, dimInNonlinear),
                  bottomRows(input, dimInLinear))
    ELSE responseNonlinear(input)

\* response(input), response(inputNonlinear, inputLinear),
\* nonlinearResponses(input) and linearResponse(input) on one column
ResponsesCall ==
    /\ tr.pc = "idle"
    /\ ~resp.valid
    /\ \E input \in [1..dimIn -> InputValues] :
          resp' = [valid |-> TRUE,
                   inputNonlinear |-> topRows(input, dimInNonlinear),
                   inputLinear |-> bottomRows(input, dimInLinear),
                   stm |-> response(topRows(input, dimInNonlinear),
                                    bottomRows(input, dimInLinear)),
                   glm |-> Num(0),
                   input |-> input,
                   stacked |-> responseStacked(input),
                   components |-> nonlinearResponses(input),
                   linear |-> linearResponse(input)]
    /\ UNCHANGED <<stmVars, packVars, tr, glm, gradVars>>

NextPooling ==
    \/ SetLargeBiases
    \/ ResponsesCall

SpecPooling == InitResponse /\ [][NextPooling]_vars

Pooled(r) == AddInt(logSumExp(r.components), r.linear)

\* C25: for every model and every input of full dimensionality D_nl + D_l,
\* response(input) equals the pooling over components (logsumexp down each
\* column) of nonlinearResponses(input) plus linearResponse(input); with
\* D_nl = 0 nonlinearResponses is the bias vector, with D_l = 0
\* linearResponse is zero, and the stacked-input and split-input overloads
\* of response give the same result.
C25_AsStated ==
    "stacked" \in DOMAIN resp =>
        /\ resp.stacked = Pooled(resp)
        /\ mDimInNonlinear = 0 => resp.components = mBiases.data
        /\ mDimInLinear = 0 => resp.linear = 0
        /\ resp.stacked = resp.stm

\* the same for models in which no exponential of a bias leaves the range
\* of a double
C25_WithinExpRange ==
    ("stacked" \in DOMAIN resp
        /\ \A c \in 1..mNumComponents :
              ~ExpOverflows(mBiases.data[c]) /\ ~ExpVanishes(mBiases.data[c]))
    => /\ resp.stacked = Pooled(resp)
       /\ mDimInNonlinear = 0 => resp.components = mBiases.data
       /\ mDimInLinear = 0 => resp.linear = 0
       /\ resp.stacked = resp.stm

(***************************************************************************)
(* What a call of STM::parameterGradient returns, as a function of what it *)
(* reads.  The term a data column adds to an accumulator is computed from  *)
(* the five views (biases, weights, features, predictors, linearPredictor),*)
(* the column and the nonlinearity; a result therefore carries the views   *)
(* the terms were computed from next to the formal sums of the terms.      *)
(***************************************************************************)
\* the number of times each column's term is added by the loop over batches
TimesAdded(n, batchSize) ==
    [c \in 1..n |->
        Cardinality({b \in BatchStarts(n, batchSize) :
                        c \in BatchColumns(b, Width(batchSize, n, b))})]

\* (mutant: the iteration is left before logLik is updated when g is null)
LogLikOnlyWithG(hasG, counts) ==
    IF hasG THEN counts ELSE [c \in DOMAIN counts |-> 0]

\* logLik += logLikBatch comes before if(!g) continue
LogLik(hasG, counts) == counts

\* the gradient accumulators after the loop
GradientSums(params, hasG, counts) ==
    [j \in 1..5 |->
        IF ~(hasG /\ FlagSeq(params)[j]) THEN <<>>
        ELSE IF \E t \in 1..Len(Targets(params, hasG)) :
                   Targets(params, hasG)[t] = j
        THEN Minus(Zero(Len(counts)), counts)
        ELSE Zero(Len(counts))]

parameterGradient(x, params, reg, configured, hasG, n) ==
    LET views == Views(x, params)
        counts == TimesAdded(n, BatchSize(configured, n))
    IN  [views |-> views.block,
         value |-> ObjectiveValue(params, reg, views,
                                  LogLik(hasG, counts), n, 0, FALSE),
         g |-> GradientEntries(params, reg, hasG, views,
                               GradientSums(params, hasG, counts), n)]

\* what x holds at and beyond index numParameters(config)
Tails == {<<>>, <<Num(7)>>, <<Num(8), Num(9)>>}
PairNumData == {1, MinBatch + 1}

\* a first call on the model as constructed
FirstGradientCall ==
    /\ gr.pc = "idle"
    /\ lastOp.op = "new"
    /\ Differentiable(mNonlinearity)
    /\ \E flags \in Flags, reg \in Regularizations, hasG \in BOOL,
          n \in PairNumData, tail \in Tails,
          configured \in {0, MinBatch + 1} :
          LET x == GradientX(numParameters(flags)) \o tail
          IN  gr' = [pc |-> "first", cfg |-> flags, reg |-> reg,
                     configured |-> configured,
                     numData |-> n, hasG |-> hasG, x |-> x,
                     first |-> parameterGradient(x, flags, reg, configured,
                                                 hasG, n),
                     hasG2 |-> FALSE, x2 |-> <<>>, second |-> <<>>]
    /\ UNCHANGED <<stmVars, packVars, trainVars, workers, lock>>

\* the stored contents of the flagged blocks are replaced between the
\* calls: setParameters with the flags of the calls and another vector
ReplaceFlaggedBlocks ==
    /\ gr.pc = "first"
    /\ lastOp.op = "new"
    /\ SetParameters(CallerX(numParameters(gr.cfg)), gr.cfg, "setParameters")

\* a second call: same data, same configuration, same leading entries of x
SecondGradientCall ==
    /\ gr.pc = "first"
    /\ \E hasG \in BOOL, tail \in Tails :
          LET x == SubSeq(gr.x, 1, numParameters(gr.cfg)) \o tail
          IN  gr' = [gr EXCEPT
                       !.pc = "second", !.hasG2 = hasG, !.x2 = x,
                       !.second = parameterGradient(x, gr.cfg, gr.reg,
                                                    gr.configured, hasG,
                                                    gr.numData)]
    /\ UNCHANGED <<stmVars, packVars, trainVars, workers, lock>>

NextPair ==
    \/ FirstGradientCall
    \/ ReplaceFlaggedBlocks
    \/ SecondGradientCall

SpecPair == InitLifecycle /\ [][NextPair]_vars

\* C26: two calls of parameterGradient with the same data, the same
\* configuration, the same entries x[0 .. numParameters(config)-1] and the
\* same stored contents of the non-flagged blocks return the same objective
\* and the same gradient, whatever the stored contents of the flagged
\* blocks and whatever x holds at or beyond index numParameters(config);
\* and the objective is the same whether or not a gradient buffer is
\* supplied.
C26_Determined ==
    gr.pc = "second" =>
        /\ gr.second.views = gr.first.views
        /\ gr.second.value = gr.first.value
        /\ (gr.hasG /\ gr.hasG2) => gr.second.g = gr.first.g

\* the second call has no buffer where the first had one, another tail of
\* x, and runs after the stored biases were replaced; the weights are not
\* flagged and are read from the model
C26_Witness ==
    /\ gr.pc = "second"
    /\ lastOp.op = "setParameters"
    /\ gr.hasG /\ ~gr.hasG2
    /\ gr.x # gr.x2
    /\ gr.cfg.trainBiases /\ ~gr.cfg.trainWeights
    /\ mNumFeatures > 0
    /\ mBiases # RandomMat(1, mBiases.rows, mBiases.cols)
    /\ mBiases # gr.second.views[1]
    /\ gr.numData > MinBatch

====
